---- MODULE Spec2Model ----
(***************************************************************************)
(* A model of the document splitter (src/src/splitter.py) and of the text  *)
(* normalizer (src/src/normalizer.py) of og-title-assistant.                *)
(*                                                                         *)
(* Python str values are TLA+ strings; TLC evaluates Len, \o and SubSeq on *)
(* them, so every text operation below works character by character.       *)
(* Optional[T] is the empty tuple (None) or a one-element tuple (Some(v)). *)
(***************************************************************************)
EXTENDS Integers, Sequences, FiniteSets, TLC

None == <<>>
Some(v) == <<v>>
Get(o) == o[1]

\* Python truthiness of an Optional[str]: None and "" are false.
Truthy(o) == o # None /\ Get(o) # ""

\* Op applied to the value of v: v is evaluated once, whatever use Op makes
\* of its argument (a local variable of the source).
Let(v, Op(_)) == CHOOSE y \in {Op(x) : x \in {v}} : TRUE

\* min(S) for a non-empty set of integers
Least(S) == CHOOSE q \in S : \A j \in S : q <= j

(***************************************************************************)
(* Characters and strings                                                  *)
(***************************************************************************)

\* The printable ASCII characters in code point order, from the space to the
\* tilde. The backquote cannot be written in a TLA+ string and is left out:
\* no text of the model contains it.
Ascii == " !\"#$%&'()*+,-./0123456789:;<=>?@ABCDEFGHIJKLMNOPQRSTUVWXYZ[\\]^_abcdefghijklmnopqrstuvwxyz{|}~"

CharAt(s, i) == SubSeq(s, i, i)

CharsOf(s) == {CharAt(s, i) : i \in 1..Len(s)}

UpperLetters == CharsOf("ABCDEFGHIJKLMNOPQRSTUVWXYZ")
LowerLetters == CharsOf("abcdefghijklmnopqrstuvwxyz")
Digits == CharsOf("0123456789")
\* \s of the re module, restricted to the characters of the model's texts.
Whitespace == {" ", "\t", "\n", "\r", "\f"}
\* \w of the re module on ASCII text.
WordChars == UpperLetters \cup LowerLetters \cup Digits \cup {"_"}

\* Position of a printable character in Ascii: the order of the code points.
Ord(c) == IF c \in CharsOf(Ascii)
          THEN CHOOSE i \in 1..Len(Ascii) : CharAt(Ascii, i) = c
          ELSE 0

\* c.translate(from -> to) for two alphabets of 26 letters
Translate(c, from, to) ==
    IF \E i \in 1..26 : CharAt(from, i) = c
    THEN CharAt(to, CHOOSE i \in 1..26 : CharAt(from, i) = c)
    ELSE c

\* str.upper() on one ASCII character.
UpperChar(c) == Translate(c, "abcdefghijklmnopqrstuvwxyz", "ABCDEFGHIJKLMNOPQRSTUVWXYZ")

\* str.lower() on one ASCII character.
LowerChar(c) == Translate(c, "ABCDEFGHIJKLMNOPQRSTUVWXYZ", "abcdefghijklmnopqrstuvwxyz")

RECURSIVE UpperRange(_, _, _)
\* s[lo..hi].upper(), one half of the range after the other
UpperRange(s, lo, hi) ==
    IF lo > hi THEN ""
    ELSE IF lo = hi THEN UpperChar(CharAt(s, lo))
    ELSE Let((lo + hi) \div 2,
             LAMBDA mid : UpperRange(s, lo, mid) \o UpperRange(s, mid + 1, hi))

\* str.upper()
Upper(s) == Let(s, LAMBDA t : UpperRange(t, 1, Len(t)))

RECURSIVE LowerRange(_, _, _)
\* s[lo..hi].lower(), one half of the range after the other
LowerRange(s, lo, hi) ==
    IF lo > hi THEN ""
    ELSE IF lo = hi THEN LowerChar(CharAt(s, lo))
    ELSE Let((lo + hi) \div 2,
             LAMBDA mid : LowerRange(s, lo, mid) \o LowerRange(s, mid + 1, hi))

\* str.lower()
Lower(s) == Let(s, LAMBDA t : LowerRange(t, 1, Len(t)))

\* str.lstrip(): from the first character that is no whitespace
LStrip(s) ==
    Let(s, LAMBDA t :
        SubSeq(t, Least({i \in 1..(Len(t) + 1) : i = Len(t) + 1 \/ CharAt(t, i) \notin Whitespace}),
               Len(t)))

\* str.rstrip(): up to the last character that is no whitespace
RStrip(s) ==
    Let(s, LAMBDA t :
        SubSeq(t, 1, Len(t) - Least({k \in 0..Len(t) :
                                        k = Len(t) \/ CharAt(t, Len(t) - k) \notin Whitespace})))

\* str.strip()
Strip(s) == RStrip(LStrip(s))

\* sub == s[p : p + len(sub)]
StartsAt(s, sub, p) == p + Len(sub) - 1 <= Len(s) /\ SubSeq(s, p, p + Len(sub) - 1) = sub

\* Python's  sub in s
Contains(s, sub) == \E p \in 1..(Len(s) + 1) : StartsAt(s, sub, p)

RECURSIVE ReplaceFrom(_, _, _, _, _)
\* The text from position p on, each of the occurrences of old replaced.
ReplaceFrom(s, old, new, occurrences, p) ==
    Let({q \in occurrences : q >= p}, LAMBDA later :
        IF later = {} THEN SubSeq(s, p, Len(s))
        ELSE Let(Least(later), LAMBDA q :
                 SubSeq(s, p, q - 1) \o new \o ReplaceFrom(s, old, new, occurrences, q + Len(old))))

\* str.replace(old, new) for a non-empty old
Replace(s, old, new) ==
    Let(s, LAMBDA t :
        Let({q \in 1..Len(t) : StartsAt(t, old, q)}, LAMBDA occurrences :
            ReplaceFrom(t, old, new, occurrences, 1)))

\* Python's  a < b  on strings (code point order): at the first position
\* where they differ a has ended or has the smaller character.
StrLess(a, b) ==
    \E i \in 1..Len(b) :
        /\ Len(a) >= i - 1
        /\ \A j \in 1..(i - 1) : CharAt(a, j) = CharAt(b, j)
        /\ \/ Len(a) = i - 1
           \/ Ord(CharAt(a, i)) < Ord(CharAt(b, i))

\* sorted(S) for a finite set of strings
SortedSeq(S) ==
    Let(S, LAMBDA T :
        [i \in 1..Cardinality(T) |->
            CHOOSE x \in T : Cardinality({y \in T : StrLess(y, x)}) = i - 1])

RECURSIVE JoinFrom(_, _, _)
JoinFrom(sep, parts, i) ==
    IF i > Len(parts) THEN ""
    ELSE IF i = Len(parts) THEN parts[i]
    ELSE parts[i] \o sep \o JoinFrom(sep, parts, i + 1)

\* sep.join(parts)
Join(sep, parts) == Let(<<>> \o parts, LAMBDA ps : JoinFrom(sep, ps, 1))

\* str(n) for 0 <= n <= 999
IntToStr(n) ==
    LET d(k) == CharAt("0123456789", k + 1)
    IN IF n < 10 THEN d(n)
       ELSE IF n < 100 THEN d(n \div 10) \o d(n % 10)
       ELSE d(n \div 100) \o d((n \div 10) % 10) \o d(n % 10)

(***************************************************************************)
(* Regular expressions of the re module                                    *)
(*                                                                         *)
(* A pattern is a tree; M(r, s, p, g) is the list of the ways r matches s  *)
(* from position p (1-based) with groups g, in the order in which re's     *)
(* backtracking matcher tries them: each way is the position after the     *)
(* match and the groups captured. re.search takes the first way at the     *)
(* leftmost position that has one.                                         *)
(***************************************************************************)

Lit(v) == [t |-> "lit", v |-> v]              \* literal text
Cls(S) == [t |-> "cls", v |-> S]              \* [...] and \d \s \w
NCls(S) == [t |-> "ncls", v |-> S]            \* [^...]
AnyChar == [t |-> "ncls", v |-> {"\n"}]       \* .
Cat(rs) == [t |-> "cat", v |-> rs]            \* r1 r2 ...
Alt(rs) == [t |-> "alt", v |-> rs]            \* r1|r2|...
Opt(r) == [t |-> "opt", v |-> r]              \* r?
Star(r) == [t |-> "star", v |-> r]            \* r*
Plus(r) == [t |-> "plus", v |-> r]            \* r+
LazyStar(r) == [t |-> "lazy", v |-> r]        \* r*?
Grp(k, r) == [t |-> "grp", k |-> k, v |-> r]  \* (r), the k-th group
Bos == [t |-> "bos"]                          \* ^
Eos == [t |-> "eos"]                          \* $
Wb == [t |-> "wb"]                            \* \b

\* The most groups a pattern of the source has (five, in the first S-T-R pattern).
MaxGroups == 5
NoGroups == [k \in 1..MaxGroups |-> None]

Way(p, g) == [p |-> p, g |-> g]

IsWordAt(s, p) == p >= 1 /\ p <= Len(s) /\ CharAt(s, p) \in WordChars

RECURSIVE Flat(_, _, _)
\* xss[lo] \o ... \o xss[hi], for a sequence of sequences
Flat(xss, lo, hi) ==
    IF lo > hi THEN <<>>
    ELSE IF lo = hi THEN xss[lo]
    ELSE Let((lo + hi) \div 2, LAMBDA mid : Flat(xss, lo, mid) \o Flat(xss, mid + 1, hi))

\* F(xs[1]) \o ... \o F(xs[n]) for a sequence xs
FlatMap(xs, F(_)) ==
    Let(xs, LAMBDA ys :
        Let(<<>> \o [k \in 1..Len(ys) |-> F(ys[k])], LAMBDA xss : Flat(xss, 1, Len(ys))))

\* The number of characters from position p on that a one-character pattern
\* r accepts.
Run(r, s, p) ==
    Least({n \in 0..(Len(s) + 1 - p) :
              \/ p + n > Len(s)
              \/ IF r.t = "cls" THEN CharAt(s, p + n) \notin r.v ELSE CharAt(s, p + n) \in r.v})

\* The ways of xs that consumed something after position p (a repetition
\* stops on an empty iteration).
Progress(xs, p) == SelectSeq(xs, LAMBDA x : x.p > p)

RECURSIVE M(_, _, _, _)
RECURSIVE MSeq(_, _, _, _)
RECURSIVE Ways(_, _, _, _)

\* The ways of the patterns rs[i], rs[i + 1], ... one after the other, from
\* each of the ways of the patterns before them.
MSeq(rs, i, s, ways) ==
    IF i > Len(rs) THEN ways
    ELSE Let(FlatMap(ways, LAMBDA x : M(rs[i], s, x.p, x.g)),
             LAMBDA next : MSeq(rs, i + 1, s, next))

\* The ways of r, by the form of the pattern.
Ways(r, s, p, g) ==
    CASE r.t = "lit" -> IF StartsAt(s, r.v, p) THEN <<Way(p + Len(r.v), g)>> ELSE <<>>
      [] r.t = "cls" -> IF p <= Len(s) /\ CharAt(s, p) \in r.v THEN <<Way(p + 1, g)>> ELSE <<>>
      [] r.t = "ncls" -> IF p <= Len(s) /\ CharAt(s, p) \notin r.v THEN <<Way(p + 1, g)>> ELSE <<>>
      [] r.t = "cat" -> MSeq(r.v, 1, s, <<Way(p, g)>>)
      [] r.t = "alt" -> FlatMap(r.v, LAMBDA b : M(b, s, p, g))
      [] r.t = "opt" -> M(r.v, s, p, g) \o <<Way(p, g)>>
      \* A repetition of a one-character pattern: the longest run first
      \* (greedy) or the shortest first (lazy), down or up one character
      \* at a time.
      [] r.t = "star" /\ r.v.t \in {"cls", "ncls"} ->
            Let(Run(r.v, s, p), LAMBDA n : [i \in 1..(n + 1) |-> Way(p + n + 1 - i, g)])
      [] r.t = "lazy" /\ r.v.t \in {"cls", "ncls"} ->
            Let(Run(r.v, s, p), LAMBDA n : [i \in 1..(n + 1) |-> Way(p + i - 1, g)])
      [] r.t = "plus" /\ r.v.t \in {"cls", "ncls"} ->
            Let(Run(r.v, s, p), LAMBDA n : [i \in 1..n |-> Way(p + n + 1 - i, g)])
      [] r.t = "star" /\ r.v.t \notin {"cls", "ncls"} ->
            FlatMap(Progress(M(r.v, s, p, g), p), LAMBDA x : M(r, s, x.p, x.g)) \o <<Way(p, g)>>
      [] r.t = "lazy" /\ r.v.t \notin {"cls", "ncls"} ->
            <<Way(p, g)>> \o FlatMap(Progress(M(r.v, s, p, g), p), LAMBDA x : M(r, s, x.p, x.g))
      [] r.t = "plus" /\ r.v.t \notin {"cls", "ncls"} ->
            FlatMap(M(r.v, s, p, g), LAMBDA x : M(Star(r.v), s, x.p, x.g))
      [] r.t = "grp" ->
            Let(M(r.v, s, p, g), LAMBDA xs :
                [i \in 1..Len(xs) |->
                    Way(xs[i].p, [xs[i].g EXCEPT ![r.k] = Some(SubSeq(s, p, xs[i].p - 1))])])
      [] r.t = "bos" -> IF p = 1 THEN <<Way(p, g)>> ELSE <<>>
      [] r.t = "eos" -> IF p = Len(s) + 1 \/ (p = Len(s) /\ CharAt(s, p) = "\n")
                        THEN <<Way(p, g)>> ELSE <<>>
      [] r.t = "wb" -> IF IsWordAt(s, p - 1) # IsWordAt(s, p) THEN <<Way(p, g)>> ELSE <<>>

M(r, s, p, g) == Let(<<r, s, p, g>>, LAMBDA a : <<>> \o Ways(a[1], a[2], a[3], a[4]))

\* The match of r at position q of s, if there is one: the first way there.
MatchAt(r, s, q) ==
    Let(M(r, s, q, NoGroups), LAMBDA xs :
        IF Len(xs) > 0 THEN Some([start |-> q, end |-> xs[1].p, g |-> xs[1].g]) ELSE None)

RECURSIVE SearchIn(_, _, _, _)
\* The match at the leftmost position of lo..hi that has one, the left half
\* of the positions before the right half.
SearchIn(r, s, lo, hi) ==
    IF lo > hi THEN None
    ELSE IF lo = hi THEN MatchAt(r, s, lo)
    ELSE Let((lo + hi) \div 2, LAMBDA mid :
             Let(SearchIn(r, s, lo, mid), LAMBDA left :
                 IF left # None THEN left ELSE SearchIn(r, s, mid + 1, hi)))

\* re.search(r, s): None, or the match at the leftmost position that has one
Search(r, s) == Let(<<r, s>>, LAMBDA a : SearchIn(a[1], a[2], 1, Len(a[2]) + 1))

\* re.match(r, s): a match at the start of s only
Match(r, s) == MatchAt(r, s, 1)

\* match.group(k) of a match that has the group
Group(m, k) == Get(Get(m).g[k])

RECURSIVE FindIterFrom(_, _, _)
\* The matches from position p on, one after the other.
FindIterFrom(r, s, p) ==
    Let(SearchIn(r, s, p, Len(s)), LAMBDA m :
        IF m = None THEN <<>> ELSE <<m>> \o FindIterFrom(r, s, Get(m).end))

\* list(re.finditer(r, s)) for a pattern r that matches no empty string
FindIter(r, s) == Let(<<r, s>>, LAMBDA a : FindIterFrom(a[1], a[2], 1))

RECURSIVE SubFrom(_, _, _, _)
\* The text from position p on, each of the matches ms from the i-th on
\* replaced.
SubFrom(ms, repl, s, i) ==
    IF i > Len(ms) THEN ""
    ELSE repl \o SubSeq(s, Get(ms[i]).end, IF i = Len(ms) THEN Len(s) ELSE Get(ms[i + 1]).start - 1)
         \o SubFrom(ms, repl, s, i + 1)

\* re.sub(r, repl, s) for a pattern r that matches no empty string
Sub(r, repl, s) ==
    Let(s, LAMBDA t :
        Let(FindIter(r, t), LAMBDA ms :
            IF Len(ms) = 0 THEN t
            ELSE SubSeq(t, 1, Get(ms[1]).start - 1) \o SubFrom(ms, repl, t, 1)))

(***************************************************************************)
(* splitter.py: tables and pure functions                                  *)
(***************************************************************************)

EXHIBIT_MARKERS == <<
    "EXHIBIT A", "EXHIBIT B", "EXHIBIT C", "EXHIBIT D", "EXHIBIT E",
    "EXHIBIT 1", "EXHIBIT 2", "EXHIBIT 3",
    "SCHEDULE OF LEASES", "SCHEDULE 1", "SCHEDULE 2", "SCHEDULE A", "SCHEDULE B",
    "LEASE SCHEDULE", "SCHEDULE OF LANDS",
    "ATTACHED HERETO", "ATTACHMENT A", "ATTACHMENT 1",
    "DESCRIPTION OF LANDS", "LEGAL DESCRIPTION", "PROPERTY DESCRIPTION",
    "SCHEDULE OF INTERESTS", "TRACT SCHEDULE", "WELL SCHEDULE", "UNIT SCHEDULE" >>

TABLE_INDICATORS == <<"SCHEDULE", "LEASES", "TRACT", "INTERESTS", "WELLS", "UNITS", "LESSOR", "LESSEE">>

LEGAL_DESC_INDICATORS == <<"LEGAL DESCRIPTION", "LANDS", "PROPERTY", "SECTION", "TOWNSHIP",
                           "RANGE", "QUARTER", "METES AND BOUNDS">>

IMAGE_INDICATORS == <<"PLAT", "MAP", "SURVEY", "DRAWING", "DIAGRAM">>

\* The continuation suffixes _get_base_marker removes, in its order.
CONTINUATION_SUFFIXES == <<"(CONTINUED)", "(CONT.)", "(CONT)", "- CONTINUED", "CONTINUED">>

\* dataclass ExhibitInfo, with its defaults
ExhibitInfo(marker, start_page, exhibit_type) ==
    [marker |-> marker, start_page |-> start_page, exhibit_type |-> exhibit_type,
     end_page |-> None, path |-> None, page_count |-> 0]

\* dataclass SplitPoints, with its defaults
SplitPoints(total) == [body_end |-> None, exhibits |-> <<>>, total_pages |-> total]

\* dataclass SplitResult, with its defaults
SplitResult(original_path, total) ==
    [body_path |-> None, exhibits |-> <<>>, original_path |-> original_path,
     total_pages |-> total, body_pages |-> 0]

\* any(ind in marker_upper or ind in text_upper for ind in indicators)
AnyIndicator(indicators, marker_upper, text_upper) ==
    \E i \in 1..Len(indicators) :
        Contains(marker_upper, indicators[i]) \/ Contains(text_upper, indicators[i])

\* The checks in another order: image before table and legal descriptions.
ClassifyExhibitTypeImageFirst(marker, text) ==
    LET text_upper == Upper(text)
        marker_upper == Upper(marker)
    IN IF AnyIndicator(IMAGE_INDICATORS, marker_upper, text_upper) THEN "image"
       ELSE IF AnyIndicator(TABLE_INDICATORS, marker_upper, text_upper) THEN "table"
       ELSE IF AnyIndicator(LEGAL_DESC_INDICATORS, marker_upper, text_upper) THEN "legal_descriptions"
       ELSE "narrative"

ClassifyExhibitType(marker, text) ==
    LET text_upper == Upper(text)
        marker_upper == Upper(marker)
    IN IF AnyIndicator(TABLE_INDICATORS, marker_upper, text_upper) THEN "table"
       ELSE IF AnyIndicator(LEGAL_DESC_INDICATORS, marker_upper, text_upper) THEN "legal_descriptions"
       ELSE IF AnyIndicator(IMAGE_INDICATORS, marker_upper, text_upper) THEN "image"
       ELSE "narrative"

RECURSIVE RemoveSuffixes(_, _)
\* The loop of _get_base_marker over the suffixes left.
RemoveSuffixes(marker_upper, suffixes) ==
    IF Len(suffixes) = 0 THEN marker_upper
    ELSE IF Contains(marker_upper, Head(suffixes))
         THEN RemoveSuffixes(Strip(Replace(marker_upper, Head(suffixes), "")), Tail(suffixes))
         ELSE RemoveSuffixes(marker_upper, Tail(suffixes))

\* A _get_base_marker that only trims and uppercases the marker.
GetBaseMarkerKeepsSuffix(marker) == Strip(Upper(marker))

GetBaseMarker(marker) == RemoveSuffixes(Strip(Upper(marker)), CONTINUATION_SUFFIXES)

RECURSIVE ConsolidateLoop(_, _, _)
\* The for loop of _consolidate_exhibits: the exhibits left, the list built so
\* far and current_exhibit (None before the first hit).
ConsolidateLoop(exhibits, consolidated, current_exhibit) ==
    IF Len(exhibits) = 0
    THEN IF current_exhibit # None THEN Append(consolidated, Get(current_exhibit)) ELSE consolidated
    ELSE LET exhibit == Head(exhibits)
             base_marker == GetBaseMarker(exhibit.marker)
             fresh == ExhibitInfo(base_marker, exhibit.start_page, exhibit.exhibit_type)
         IN IF current_exhibit = None
            THEN ConsolidateLoop(Tail(exhibits), consolidated, Some(fresh))
            ELSE IF GetBaseMarker(Get(current_exhibit).marker) = base_marker
            THEN ConsolidateLoop(Tail(exhibits), consolidated, current_exhibit)
            ELSE ConsolidateLoop(Tail(exhibits), Append(consolidated, Get(current_exhibit)), Some(fresh))

ConsolidateExhibits(exhibits) ==
    IF Len(exhibits) = 0 THEN <<>> ELSE ConsolidateLoop(exhibits, <<>>, None)

RECURSIVE FirstMarkerFrom(_, _)
FirstMarkerFrom(text, i) ==
    IF i > Len(EXHIBIT_MARKERS) THEN None
    ELSE IF Contains(text, EXHIBIT_MARKERS[i]) THEN Some(EXHIBIT_MARKERS[i])
    ELSE FirstMarkerFrom(text, i + 1)

\* The marker loop of find_split_points on one page's uppercased header text:
\* the first marker of EXHIBIT_MARKERS the text contains, or None.
FirstMarker(text) == FirstMarkerFrom(text, 1)

(***************************************************************************)
(* splitter.py: the run of find_split_points and split_document            *)
(***************************************************************************)

\* Bounds: the pages of a document.
MaxPages == 3

\* The scan_pages arguments tried: a window shorter than the document and
\* one at least as long.
ScanPagesChoices == {2, MaxPages}

\* Header texts the OCR of a page's top strip may return.
HeaderTexts == {"Regular document text",
                "EXHIBIT A - SCHEDULE OF LEASES",
                "Exhibit A (continued)",
                "EXHIBIT B",
                "Survey plat attached hereto"}

\* What one page of the scan window does: its header is rendered and OCR
\* returns a text, the render raises (page.get_pixmap or Image.open), or
\* pytesseract.image_to_string raises.
PageOutcomes == [kind : {"text"}, text : HeaderTexts]
                \cup {[kind |-> "render_error", text |-> ""], [kind |-> "ocr_error", text |-> ""]}

VARIABLES
    entry,          \* the function the caller calls: "process_document", or "direct" for
                    \* find_split_points followed by split_document
    pdf_exists,     \* os.path.exists(pdf_path)
    total_pages,    \* len(doc) of the PDF at pdf_path
    scan_pages,     \* the scan_pages argument
    pc,             \* where the run is
    exc,            \* the exception that reached the caller, or None
    open_handles,   \* handles on the source document opened and not closed
    opens,          \* fitz.open(pdf_path) calls made
    page_num,       \* the loop variable of the scan
    scanned,        \* the pages examined so far: <<page, outcome>>, in order
    split_points,   \* the SplitPoints object
    dir_made,       \* output_dir.mkdir was called
    files,          \* the sub-document files on disk
    result,         \* the SplitResult object of split_document
    idx,            \* the loop variable of the exhibit extraction loop
    returned,       \* what the caller got back: None or Some(value)
    written         \* the sub-documents saved so far, in order: the path and the pages
                    \* of the source inserted into it

splitVars == <<entry, pdf_exists, total_pages, scan_pages, pc, exc, open_handles, opens,
               page_num, scanned, split_points, dir_made, files, result, idx, returned,
               written>>

\* f"body_{file_hash}.pdf" and f"exhibit_{i}_{file_hash}.pdf" under output_dir
PDF_PATH == "/in/doc.pdf"
BodyPath == "/tmp/body_HASH.pdf"
ExhibitPath(i) == "/tmp/exhibit_" \o IntToStr(i) \o "_HASH.pdf"

SplitInit ==
    /\ entry \in {"process_document", "direct"}
    /\ pdf_exists \in BOOLEAN
    /\ total_pages \in (IF pdf_exists THEN 1..MaxPages ELSE {0})
    /\ scan_pages \in ScanPagesChoices
    /\ pc = "start"
    /\ exc = None
    /\ open_handles = 0
    /\ opens = 0
    /\ page_num = 0
    /\ scanned = <<>>
    /\ split_points = SplitPoints(0)
    /\ dir_made = FALSE
    /\ files = {}
    /\ result = SplitResult("", 0)
    /\ idx = 0
    /\ returned = None
    /\ written = <<>>

\* An exception leaves the function and reaches the caller.
Raise(name) == pc' = "raised" /\ exc' = Some(name)

\* A sub-document saved at path with the pages of the source inserted into
\* it, in the order of the insert_pdf calls.
Saved(path, pages) == [path |-> path, pages |-> pages]

\* A body that takes the page at body_end too.
BodyPageRangeThroughBoundary(body_end) == [k \in 1..(body_end + 1) |-> k - 1]

\* Lines 342-343: for page_num in range(split_points.body_end), one
\* insert_pdf of that page.
BodyPageRange(body_end) == [k \in 1..body_end |-> k - 1]

\* Lines 374-375: for page_num in range(exhibit.start_page,
\* exhibit.end_page + 1), one insert_pdf of that page.
ExhibitPageRange(exhibit) ==
    [k \in 1..(Get(exhibit.end_page) - exhibit.start_page + 1) |-> exhibit.start_page + k - 1]

\* A process_document that calls find_split_points without looking at the path.
ProcessDocumentNoCheck ==
    /\ pc = "start" /\ entry = "process_document"
    /\ pc' = "fsp_open"
    /\ UNCHANGED <<entry, pdf_exists, total_pages, scan_pages, exc, open_handles, opens,
                   page_num, scanned, split_points, dir_made, files, result, idx, returned, written>>

\* process_document, lines 409-412: the existence check, then the call of
\* find_split_points.
ProcessDocument ==
    /\ pc = "start" /\ entry = "process_document"
    /\ IF ~pdf_exists THEN Raise("FileNotFoundError")
       ELSE pc' = "fsp_open" /\ exc' = exc
    /\ UNCHANGED <<entry, pdf_exists, total_pages, scan_pages, open_handles, opens,
                   page_num, scanned, split_points, dir_made, files, result, idx, returned, written>>

\* The caller calls find_split_points itself.
CallFindSplitPoints ==
    /\ pc = "start" /\ entry = "direct"
    /\ pc' = "fsp_open"
    /\ UNCHANGED <<entry, pdf_exists, total_pages, scan_pages, exc, open_handles, opens,
                   page_num, scanned, split_points, dir_made, files, result, idx, returned, written>>

\* find_split_points, lines 249-256: fitz.open raises on a missing file.
FspOpen ==
    /\ pc = "fsp_open"
    /\ opens' = opens + 1
    /\ IF ~pdf_exists
       THEN /\ Raise("FileDataError")
            /\ UNCHANGED <<open_handles, split_points, page_num>>
       ELSE /\ open_handles' = open_handles + 1
            /\ split_points' = SplitPoints(total_pages)
            /\ page_num' = 0
            /\ pc' = "scan" /\ exc' = exc
    /\ UNCHANGED <<entry, pdf_exists, total_pages, scan_pages, scanned, dir_made, files,
                   result, idx, returned, written>>

\* A scan window that is the whole document.
PagesToScanWholeDocument == total_pages

\* pages_to_scan = min(scan_pages, total_pages)
PagesToScan == IF scan_pages < total_pages THEN scan_pages ELSE total_pages

\* A marker loop that moves the body end to every page with a marker.
RecordMarkerMovesBodyEnd(sp, n, text) ==
    LET marker == FirstMarker(text)
    IN IF marker = None THEN sp
       ELSE [sp EXCEPT !.body_end = Some(n),
                       !.exhibits = Append(sp.exhibits,
                                           ExhibitInfo(Get(marker), n,
                                                       ClassifyExhibitType(Get(marker), text)))]

\* A marker loop without the break: every marker the text contains is
\* recorded.
RecordMarkerEvery(sp, n, text) ==
    LET found == SelectSeq(EXHIBIT_MARKERS, LAMBDA m : Contains(text, m))
        hits == [k \in 1..Len(found) |->
                    ExhibitInfo(found[k], n, ClassifyExhibitType(found[k], text))]
    IN IF found = <<>> THEN sp
       ELSE [sp EXCEPT !.body_end = IF sp.body_end = None THEN Some(n) ELSE sp.body_end,
                       !.exhibits = sp.exhibits \o hits]

\* Lines 275-290: the marker loop on the uppercased text of page n.
RecordMarker(sp, n, text) ==
    LET marker == FirstMarker(text)
    IN IF marker = None THEN sp
       ELSE [sp EXCEPT !.body_end = IF sp.body_end = None THEN Some(n) ELSE sp.body_end,
                       !.exhibits = Append(sp.exhibits,
                                           ExhibitInfo(Get(marker), n,
                                                       ClassifyExhibitType(Get(marker), text)))]

\* One iteration of the scan loop, lines 258-290. The render (lines 259-267)
\* is outside the try block: what it raises leaves find_split_points, with
\* the document still open. An OCR error is caught and the page skipped.
ScanPageWith(outcomes) ==
    /\ pc = "scan" /\ page_num < PagesToScan
    /\ \E o \in outcomes :
        /\ scanned' = Append(scanned, <<page_num, o>>)
        /\ CASE o.kind = "render_error" ->
                   /\ Raise("RenderError")
                   /\ UNCHANGED <<page_num, split_points>>
             [] o.kind = "ocr_error" ->
                   /\ page_num' = page_num + 1
                   /\ UNCHANGED <<pc, exc, split_points>>
             [] o.kind = "text" ->
                   /\ split_points' = RecordMarker(split_points, page_num, Upper(o.text))
                   /\ page_num' = page_num + 1
                   /\ UNCHANGED <<pc, exc>>
    /\ UNCHANGED <<entry, pdf_exists, total_pages, scan_pages, open_handles, opens, dir_made,
                   files, result, idx, returned, written>>

\* The scan of a page whose header may come out in any way.
ScanPage == ScanPageWith(PageOutcomes)

\* A plan made without consolidating the hits.
FinishPlanUnconsolidated(sp, total) ==
    IF sp.body_end = None THEN [sp EXCEPT !.body_end = Some(total)] ELSE sp

\* Lines 294-299 on the SplitPoints left by the scan.
FinishPlan(sp, total) ==
    LET consolidated == [sp EXCEPT !.exhibits = ConsolidateExhibits(sp.exhibits)]
    IN IF consolidated.body_end = None
       THEN [consolidated EXCEPT !.body_end = Some(total)]
       ELSE consolidated

\* Lines 292-307: the loop is over; close, consolidate, default the body end
\* and return the plan.
FinishScan ==
    /\ pc = "scan" /\ page_num >= PagesToScan
    /\ open_handles' = open_handles - 1
    /\ split_points' = FinishPlan(split_points, total_pages)
    /\ pc' = "planned"
    /\ returned' = IF entry = "direct" THEN Some("split_points") ELSE returned
    /\ UNCHANGED <<entry, pdf_exists, total_pages, scan_pages, exc, opens, page_num, scanned,
                   dir_made, files, result, idx, written>>

\* A split_document that writes a body file whatever the body boundary is.
SplitBodyAlways ==
    /\ pc = "planned"
    /\ dir_made' = TRUE
    /\ opens' = opens + 1
    /\ open_handles' = open_handles + 1
    /\ LET fresh == SplitResult(PDF_PATH, total_pages)
           body_end == split_points.body_end
       IN \E saved \in BOOLEAN :
             IF saved
             THEN /\ files' = files \cup {BodyPath}
                  /\ written' = Append(written, Saved(BodyPath, BodyPageRange(Get(body_end))))
                  /\ result' = [fresh EXCEPT !.body_path = Some(BodyPath),
                                             !.body_pages = Get(body_end)]
                  /\ pc' = "split_ends" /\ exc' = exc
             ELSE /\ Raise("IOError")
                  /\ result' = fresh
                  /\ files' = files
                  /\ written' = written
    /\ UNCHANGED <<entry, pdf_exists, total_pages, scan_pages, page_num, scanned, split_points,
                   idx, returned>>

\* split_document, lines 326-355: the output directory, the document, the
\* result object and the body file. body_doc.save may raise.
SplitBody ==
    /\ pc = "planned"
    /\ dir_made' = TRUE
    /\ opens' = opens + 1
    /\ open_handles' = open_handles + 1
    /\ LET fresh == SplitResult(PDF_PATH, total_pages)
           body_end == split_points.body_end
       IN \* if split_points.body_end and split_points.body_end > 0
          IF body_end # None /\ Get(body_end) # 0 /\ Get(body_end) > 0
          THEN \E saved \in BOOLEAN :
                 IF saved
                 THEN /\ files' = files \cup {BodyPath}
                  /\ written' = Append(written, Saved(BodyPath, BodyPageRange(Get(body_end))))
                      /\ result' = [fresh EXCEPT !.body_path = Some(BodyPath),
                                                 !.body_pages = Get(body_end)]
                      /\ pc' = "split_ends" /\ exc' = exc
                 ELSE /\ Raise("IOError")
                      /\ result' = fresh
                      /\ files' = files
                      /\ written' = written
          ELSE /\ result' = fresh
               /\ files' = files
               /\ written' = written
               /\ pc' = "split_ends" /\ exc' = exc
    /\ UNCHANGED <<entry, pdf_exists, total_pages, scan_pages, page_num, scanned, split_points,
                   idx, returned>>

\* An end page that runs into the next exhibit's first page.
EndPageAtNextStart(exhibits, i, total) ==
    IF i + 1 <= Len(exhibits) THEN exhibits[i + 1].start_page ELSE total - 1

\* Lines 361-364: the end page of the i-th exhibit (from 1) of a document of
\* total pages.
EndPage(exhibits, i, total) ==
    IF i + 1 <= Len(exhibits) THEN exhibits[i + 1].start_page - 1 ELSE total - 1

\* Lines 358-368: every exhibit gets its end page and its page count.
WithEnds(exhibits, total) ==
    [i \in 1..Len(exhibits) |->
        [exhibits[i] EXCEPT !.end_page = Some(EndPage(exhibits, i, total)),
                            !.page_count = EndPage(exhibits, i, total) - exhibits[i].start_page + 1]]

\* The loop of lines 359-368. It writes into the ExhibitInfo objects of the
\* plan: exhibits_with_ends holds the plan's own objects.
SplitEnds ==
    /\ pc = "split_ends"
    /\ split_points' = [split_points EXCEPT !.exhibits = WithEnds(split_points.exhibits, result.total_pages)]
    /\ idx' = 0
    /\ pc' = "split_loop"
    /\ UNCHANGED <<entry, pdf_exists, total_pages, scan_pages, exc, open_handles, opens, page_num,
                   scanned, dir_made, files, result, returned, written>>

\* One iteration of the extraction loop, lines 371-387. exhibit_doc.save may
\* raise; what was written before stays on disk and the exception leaves
\* split_document with the document open.
SplitExhibit ==
    /\ pc = "split_loop" /\ idx < Len(split_points.exhibits)
    /\ \E saved \in BOOLEAN :
         IF saved
         THEN LET exhibit == [split_points.exhibits[idx + 1] EXCEPT !.path = Some(ExhibitPath(idx))]
              IN /\ files' = files \cup {ExhibitPath(idx)}
                 /\ written' = Append(written, Saved(ExhibitPath(idx), ExhibitPageRange(exhibit)))
                 /\ split_points' = [split_points EXCEPT !.exhibits[idx + 1] = exhibit]
                 /\ result' = [result EXCEPT !.exhibits = Append(result.exhibits, exhibit)]
                 /\ idx' = idx + 1
                 /\ UNCHANGED <<pc, exc>>
         ELSE /\ Raise("IOError")
              /\ UNCHANGED <<files, split_points, result, idx, written>>
    /\ UNCHANGED <<entry, pdf_exists, total_pages, scan_pages, open_handles, opens, page_num,
                   scanned, dir_made, returned>>

\* Lines 389-390: close the document and return the result.
SplitFinish ==
    /\ pc = "split_loop" /\ idx >= Len(split_points.exhibits)
    /\ open_handles' = open_handles - 1
    /\ returned' = Some("result")
    /\ pc' = "done"
    /\ UNCHANGED <<entry, pdf_exists, total_pages, scan_pages, exc, opens, page_num, scanned,
                   split_points, dir_made, files, result, idx, written>>

SplitNext ==
    \/ ProcessDocument
    \/ CallFindSplitPoints
    \/ FspOpen
    \/ ScanPage
    \/ FinishScan
    \/ SplitBody
    \/ SplitEnds
    \/ SplitExhibit
    \/ SplitFinish

\* The splitter's variables while another function is exercised.
SplitIdle ==
    /\ entry = "none"
    /\ pdf_exists = FALSE
    /\ total_pages = 0
    /\ scan_pages = 0
    /\ pc = "idle"
    /\ exc = None
    /\ open_handles = 0
    /\ opens = 0
    /\ page_num = 0
    /\ scanned = <<>>
    /\ split_points = SplitPoints(0)
    /\ dir_made = FALSE
    /\ files = {}
    /\ result = SplitResult("", 0)
    /\ idx = 0
    /\ returned = None
    /\ written = <<>>

(***************************************************************************)
(* _consolidate_exhibits called on a list of page hits                     *)
(***************************************************************************)

\* Bound: the hits of a list.
MaxHits == 3

\* Markers of page hits: three exhibits, written with and without the
\* continuation suffixes.
ConsMarkers == {"EXHIBIT A", "Exhibit A (continued)", "EXHIBIT A (CONT.)",
                "EXHIBIT B", "EXHIBIT B - CONTINUED", "SCHEDULE 1"}

\* The first page of a list of hits.
ConsFirstPages == {0, 5}

VARIABLES
    cons_in,        \* the list of ExhibitInfo given to _consolidate_exhibits
    cons_out        \* None, or Some(the list it returned)

consVars == <<cons_in, cons_out>>

\* Hits on consecutive pages from page first, one per marker of ms.
HitsOf(ms, first) ==
    [i \in 1..Len(ms) |-> ExhibitInfo(ms[i], first + i - 1, ClassifyExhibitType(ms[i], ms[i]))]

ConsInit ==
    /\ \E n \in 0..MaxHits : \E ms \in [1..n -> ConsMarkers] : \E first \in ConsFirstPages :
          cons_in = HitsOf(ms, first)
    /\ cons_out = None

ConsIdle == cons_in = <<>> /\ cons_out = None

Consolidate ==
    /\ cons_out = None
    /\ cons_out' = Some(ConsolidateExhibits(cons_in))
    /\ UNCHANGED cons_in

(***************************************************************************)
(* normalizer.py: spatial keys                                             *)
(***************************************************************************)

WS == Cls(Whitespace)   \* \s
DG == Cls(Digits)       \* \d
WD == Cls(WordChars)    \* \w
OptDot == Opt(Lit(".")) \* \.?

\* The items of STATE_ABBREVIATIONS, in the order of the dict.
STATE_ABBREVIATIONS == <<
    <<"ALABAMA", "AL">>, <<"ALASKA", "AK">>, <<"ARIZONA", "AZ">>, <<"ARKANSAS", "AR">>,
    <<"CALIFORNIA", "CA">>, <<"COLORADO", "CO">>, <<"CONNECTICUT", "CT">>, <<"DELAWARE", "DE">>,
    <<"FLORIDA", "FL">>, <<"GEORGIA", "GA">>, <<"HAWAII", "HI">>, <<"IDAHO", "ID">>,
    <<"ILLINOIS", "IL">>, <<"INDIANA", "IN">>, <<"IOWA", "IA">>, <<"KANSAS", "KS">>,
    <<"KENTUCKY", "KY">>, <<"LOUISIANA", "LA">>, <<"MAINE", "ME">>, <<"MARYLAND", "MD">>,
    <<"MASSACHUSETTS", "MA">>, <<"MICHIGAN", "MI">>, <<"MINNESOTA", "MN">>, <<"MISSISSIPPI", "MS">>,
    <<"MISSOURI", "MO">>, <<"MONTANA", "MT">>, <<"NEBRASKA", "NE">>, <<"NEVADA", "NV">>,
    <<"NEW HAMPSHIRE", "NH">>, <<"NEW JERSEY", "NJ">>, <<"NEW MEXICO", "NM">>, <<"NEW YORK", "NY">>,
    <<"NORTH CAROLINA", "NC">>, <<"NORTH DAKOTA", "ND">>, <<"OHIO", "OH">>, <<"OKLAHOMA", "OK">>,
    <<"OREGON", "OR">>, <<"PENNSYLVANIA", "PA">>, <<"RHODE ISLAND", "RI">>, <<"SOUTH CAROLINA", "SC">>,
    <<"SOUTH DAKOTA", "SD">>, <<"TENNESSEE", "TN">>, <<"TEXAS", "TX">>, <<"UTAH", "UT">>,
    <<"VERMONT", "VT">>, <<"VIRGINIA", "VA">>, <<"WASHINGTON", "WA">>, <<"WEST VIRGINIA", "WV">>,
    <<"WISCONSIN", "WI">>, <<"WYOMING", "WY">> >>

\* The abbreviations of the pattern of _extract_state, in its order (it has no IN).
STATE_ABBREV_ALTERNATIVES == <<
    "AL", "AK", "AZ", "AR", "CA", "CO", "CT", "DE", "FL", "GA", "HI", "ID", "IL", "IA", "KS", "KY",
    "LA", "ME", "MD", "MA", "MI", "MN", "MS", "MO", "MT", "NE", "NV", "NH", "NJ", "NM", "NY", "NC",
    "ND", "OH", "OK", "OR", "PA", "RI", "SC", "SD", "TN", "TX", "UT", "VT", "VA", "WA", "WV", "WI",
    "WY" >>

\* (?:,\s*|\s+)(AL|AK|...|WY)(?:\s*$|\s*,|\s+\d)
StateAbbrevPattern ==
    Cat(<< Alt(<<Cat(<<Lit(","), Star(WS)>>), Plus(WS)>>),
           Grp(1, Alt([i \in 1..Len(STATE_ABBREV_ALTERNATIVES) |-> Lit(STATE_ABBREV_ALTERNATIVES[i])])),
           Alt(<<Cat(<<Star(WS), Eos>>), Cat(<<Star(WS), Lit(",")>>), Cat(<<Plus(WS), DG>>)>>) >>)

\* The items of STATE_ABBREVIATIONS whose full name is in the text; the loop
\* over the items returns at the first of them.
FullStatesIn(text) ==
    {i \in 1..Len(STATE_ABBREVIATIONS) : Contains(text, STATE_ABBREVIATIONS[i][1])}

ExtractState(text) ==
    Let(FullStatesIn(text), LAMBDA full :
        IF full # {} THEN Some(STATE_ABBREVIATIONS[Least(full)][2])
        ELSE Let(Search(StateAbbrevPattern, text), LAMBDA abbrev_match :
                 IF abbrev_match # None THEN Some(Group(abbrev_match, 1)) ELSE None))

\* (\w+(?:\s+\w+)?)\s+(?:COUNTY|PARISH)
CountyPattern ==
    Cat(<< Grp(1, Cat(<<Plus(WD), Opt(Cat(<<Plus(WS), Plus(WD)>>))>>)),
           Plus(WS),
           Alt(<<Lit("COUNTY"), Lit("PARISH")>>) >>)

ExtractCounty(text) ==
    Let(Search(CountyPattern, text), LAMBDA county_match :
        IF county_match # None THEN Some(Strip(Group(county_match, 1))) ELSE None)

\* S(?:EC(?:TION)?)?
SecWord == Cat(<<Lit("S"), Opt(Cat(<<Lit("EC"), Opt(Lit("TION"))>>))>>)
\* [-,\s]+
Sep == Plus(Cls({"-", ","} \cup Whitespace))
\* \d+[NS] and \d+[EW]
TwpNum == Cat(<<Plus(DG), Cls({"N", "S"})>>)
RngNum == Cat(<<Plus(DG), Cls({"E", "W"})>>)

\* SECTION\s+(\d+).*?TOWNSHIP\s+(\d+)\s*(N|NORTH|S|SOUTH).*?RANGE\s+(\d+)\s*(W|WEST|E|EAST)
StrPattern1 ==
    Cat(<< Lit("SECTION"), Plus(WS), Grp(1, Plus(DG)), LazyStar(AnyChar),
           Lit("TOWNSHIP"), Plus(WS), Grp(2, Plus(DG)), Star(WS),
           Grp(3, Alt(<<Lit("N"), Lit("NORTH"), Lit("S"), Lit("SOUTH")>>)), LazyStar(AnyChar),
           Lit("RANGE"), Plus(WS), Grp(4, Plus(DG)), Star(WS),
           Grp(5, Alt(<<Lit("W"), Lit("WEST"), Lit("E"), Lit("EAST")>>)) >>)

\* S(?:EC(?:TION)?)?\s*(\d+)[-,\s]+T?(\d+[NS])[-,\s]+R?(\d+[EW])
StrPattern2 ==
    Cat(<< SecWord, Star(WS), Grp(1, Plus(DG)), Sep, Opt(Lit("T")), Grp(2, TwpNum),
           Sep, Opt(Lit("R")), Grp(3, RngNum) >>)

\* T(\d+[NS])[-,\s]+R(\d+[EW]).*?S(?:EC(?:TION)?)?\s*(\d+)
StrPattern3 ==
    Cat(<< Lit("T"), Grp(1, TwpNum), Sep, Lit("R"), Grp(2, RngNum), LazyStar(AnyChar),
           SecWord, Star(WS), Grp(3, Plus(DG)) >>)

\* T(\d+[NS])[-,\s]+R(\d+[EW])
StrPattern4 == Cat(<<Lit("T"), Grp(1, TwpNum), Sep, Lit("R"), Grp(2, RngNum)>>)

\* S(?:EC(?:TION)?)?\s*(\d+)
SectionPattern == Cat(<<SecWord, Star(WS), Grp(1, Plus(DG))>>)

\* (\d+)-(\d+[NS])-(\d+[EW])
StrPattern5 == Cat(<<Grp(1, Plus(DG)), Lit("-"), Grp(2, TwpNum), Lit("-"), Grp(3, RngNum)>>)

\* The tuple _extract_section_township_range returns.
Str(section, township, range_val) ==
    [section |-> section, township |-> township, range |-> range_val]

\* The families tried in another order: (e) before (a)..(d).
ExtractSectionTownshipRangeBareFirst(text) ==
    Let(Search(StrPattern5, text), LAMBDA p5 :
    IF p5 # None
    THEN Str(Some(Group(p5, 1)), Some(Group(p5, 2)), Some(Group(p5, 3)))
    ELSE Let(Search(StrPattern1, text), LAMBDA p1 :
    IF p1 # None
    THEN Str(Some(Group(p1, 1)),
             Some(Group(p1, 2) \o CharAt(Group(p1, 3), 1)),
             Some(Group(p1, 4) \o CharAt(Group(p1, 5), 1)))
    ELSE Let(Search(StrPattern2, text), LAMBDA p2 :
    IF p2 # None
    THEN Str(Some(Group(p2, 1)), Some(Group(p2, 2)), Some(Group(p2, 3)))
    ELSE Let(Search(StrPattern3, text), LAMBDA p3 :
    IF p3 # None
    THEN Str(Some(Group(p3, 3)), Some(Group(p3, 1)), Some(Group(p3, 2)))
    ELSE Let(<<Search(StrPattern4, text), Search(SectionPattern, text)>>, LAMBDA p4 :
    IF p4[1] # None /\ p4[2] # None /\ Group(p4[2], 1) # ""
    THEN Str(Some(Group(p4[2], 1)), Some(Group(p4[1], 1)), Some(Group(p4[1], 2)))
    ELSE Str(None, None, None))))))

\* An _extract_section_township_range whose last return gives back the
\* local variables: the township and range of pattern 4 without a section.
ExtractSectionTownshipRangeKeepsPartial(text) ==
    Let(Search(StrPattern1, text), LAMBDA p1 :
    IF p1 # None
    THEN Str(Some(Group(p1, 1)),
             Some(Group(p1, 2) \o CharAt(Group(p1, 3), 1)),
             Some(Group(p1, 4) \o CharAt(Group(p1, 5), 1)))
    ELSE Let(Search(StrPattern2, text), LAMBDA p2 :
    IF p2 # None
    THEN Str(Some(Group(p2, 1)), Some(Group(p2, 2)), Some(Group(p2, 3)))
    ELSE Let(Search(StrPattern3, text), LAMBDA p3 :
    IF p3 # None
    THEN Str(Some(Group(p3, 3)), Some(Group(p3, 1)), Some(Group(p3, 2)))
    ELSE Let(<<Search(StrPattern4, text), Search(SectionPattern, text)>>, LAMBDA p4 :
    IF p4[1] # None /\ p4[2] # None /\ Group(p4[2], 1) # ""
    THEN Str(Some(Group(p4[2], 1)), Some(Group(p4[1], 1)), Some(Group(p4[1], 2)))
    ELSE Let(Search(StrPattern5, text), LAMBDA p5 :
    IF p5 # None
    THEN Str(Some(Group(p5, 1)), Some(Group(p5, 2)), Some(Group(p5, 3)))
    ELSE IF p4[1] # None
    THEN Str(None, Some(Group(p4[1], 1)), Some(Group(p4[1], 2)))
    ELSE Str(None, None, None))))))

ExtractSectionTownshipRange(text) ==
    Let(Search(StrPattern1, text), LAMBDA p1 :
    IF p1 # None
    THEN Str(Some(Group(p1, 1)),
             Some(Group(p1, 2) \o CharAt(Group(p1, 3), 1)),
             Some(Group(p1, 4) \o CharAt(Group(p1, 5), 1)))
    ELSE Let(Search(StrPattern2, text), LAMBDA p2 :
    IF p2 # None
    THEN Str(Some(Group(p2, 1)), Some(Group(p2, 2)), Some(Group(p2, 3)))
    ELSE Let(Search(StrPattern3, text), LAMBDA p3 :
    IF p3 # None
    THEN Str(Some(Group(p3, 3)), Some(Group(p3, 1)), Some(Group(p3, 2)))
    ELSE Let(<<Search(StrPattern4, text), Search(SectionPattern, text)>>, LAMBDA p4 :
    \* p4[1] is p4 and p4[2] is sec_match of the source
    IF p4[1] # None /\ p4[2] # None /\ Group(p4[2], 1) # ""
    THEN Str(Some(Group(p4[2], 1)), Some(Group(p4[1], 1)), Some(Group(p4[1], 2)))
    ELSE Let(Search(StrPattern5, text), LAMBDA p5 :
    IF p5 # None
    THEN Str(Some(Group(p5, 1)), Some(Group(p5, 2)), Some(Group(p5, 3)))
    ELSE Str(None, None, None))))))

\* ((?:N|S|E|W|NE|NW|SE|SW))\s*[/\\]?\s*([24])
FractionPattern ==
    Cat(<< Grp(1, Alt(<<Lit("N"), Lit("S"), Lit("E"), Lit("W"),
                        Lit("NE"), Lit("NW"), Lit("SE"), Lit("SW")>>)),
           Star(WS), Opt(Cls({"/", "\\"})), Star(WS), Grp(2, Cls({"2", "4"})) >>)

\* (?:HALF|1/2) and (?:QUARTER|1/4)
HalfWord == Alt(<<Lit("HALF"), Lit("1/2")>>)
QuarterWord == Alt(<<Lit("QUARTER"), Lit("1/4")>>)

\* spelled_patterns: NORTH\s*(?:HALF|1/2) -> N2, ..., SOUTH\s*WEST\s*(?:QUARTER|1/4) -> SW4
SpelledPatterns == <<
    <<Cat(<<Lit("NORTH"), Star(WS), HalfWord>>), "N2">>,
    <<Cat(<<Lit("SOUTH"), Star(WS), HalfWord>>), "S2">>,
    <<Cat(<<Lit("EAST"), Star(WS), HalfWord>>), "E2">>,
    <<Cat(<<Lit("WEST"), Star(WS), HalfWord>>), "W2">>,
    <<Cat(<<Lit("NORTH"), Star(WS), Lit("EAST"), Star(WS), QuarterWord>>), "NE4">>,
    <<Cat(<<Lit("NORTH"), Star(WS), Lit("WEST"), Star(WS), QuarterWord>>), "NW4">>,
    <<Cat(<<Lit("SOUTH"), Star(WS), Lit("EAST"), Star(WS), QuarterWord>>), "SE4">>,
    <<Cat(<<Lit("SOUTH"), Star(WS), Lit("WEST"), Star(WS), QuarterWord>>), "SW4">> >>

\* Lines 284-287: direction and fraction of every match, in order.
FractionParts(text) ==
    Let(FindIter(FractionPattern, text), LAMBDA ms :
        <<>> \o [i \in 1..Len(ms) |-> Group(ms[i], 1) \o Group(ms[i], 2)])

RECURSIVE SpelledParts(_, _, _)
\* Lines 301-304 from the i-th spelled pattern on.
SpelledParts(text, parts, i) ==
    IF i > Len(SpelledPatterns) THEN parts
    ELSE Let(IF Search(SpelledPatterns[i][1], text) # None
                /\ ~(\E k \in 1..Len(parts) : parts[k] = SpelledPatterns[i][2])
             THEN Append(parts, SpelledPatterns[i][2])
             ELSE parts,
             LAMBDA appended : SpelledParts(text, appended, i + 1))

\* An _extract_aliquot that joins the parts in the order found, repeats
\* included.
ExtractAliquotAsFound(text) ==
    Let(FractionParts(text), LAMBDA fractions :
        Let(SpelledParts(text, fractions, 1), LAMBDA aliquot_parts :
            IF Len(aliquot_parts) > 0 THEN Some(Join("-", aliquot_parts)) ELSE None))

ExtractAliquot(text) ==
    Let(FractionParts(text), LAMBDA fractions :
        Let(SpelledParts(text, fractions, 1), LAMBDA aliquot_parts :
            IF Len(aliquot_parts) > 0
            THEN Some(Join("-", SortedSeq({aliquot_parts[k] : k \in 1..Len(aliquot_parts)})))
            ELSE None))

\* dataclass SpatialKey with the key of __post_init__
SpatialKey(state, county, section, township, range_val, aliquot) ==
    [state |-> state, county |-> county, section |-> section, township |-> township,
     range |-> range_val, aliquot |-> aliquot,
     key |-> state \o "-" \o county \o "-" \o section \o "-" \o township \o "-" \o range_val
             \o (IF Truthy(aliquot) THEN "-" \o Get(aliquot) ELSE "")]

\* A generate_spatial_key that does not require the county.
GenerateSpatialKeyWithoutCounty(legal_desc) ==
    IF legal_desc = "" THEN None
    ELSE Let(Strip(Upper(legal_desc)), LAMBDA text :
         Let(ExtractState(text), LAMBDA state :
         Let(ExtractCounty(text), LAMBDA county :
         Let(ExtractSectionTownshipRange(text), LAMBDA str :
         Let(ExtractAliquot(text), LAMBDA aliquot :
             IF ~(Truthy(state) /\ Truthy(str.section) /\ Truthy(str.township) /\ Truthy(str.range))
             THEN None
             ELSE Some(SpatialKey(Get(state), IF county = None THEN "" ELSE Get(county),
                                  Get(str.section), Get(str.township), Get(str.range),
                                  aliquot)))))))

GenerateSpatialKey(legal_desc) ==
    IF legal_desc = "" THEN None
    ELSE Let(Strip(Upper(legal_desc)), LAMBDA text :
         Let(ExtractState(text), LAMBDA state :
         Let(ExtractCounty(text), LAMBDA county :
         Let(ExtractSectionTownshipRange(text), LAMBDA str :
         Let(ExtractAliquot(text), LAMBDA aliquot :
             IF ~(Truthy(state) /\ Truthy(county) /\ Truthy(str.section)
                  /\ Truthy(str.township) /\ Truthy(str.range))
             THEN None
             ELSE Some(SpatialKey(Get(state), Get(county), Get(str.section), Get(str.township),
                                  Get(str.range), aliquot)))))))

(***************************************************************************)
(* normalizer.py: party names                                              *)
(***************************************************************************)

\* A suffix pattern  ,?\s*<body>$  for the body given as a list of patterns.
Suffix(body) == Cat(<<Opt(Lit(",")), Star(WS)>> \o body \o <<Eos>>)

\* A tail pattern  ,?\s*<word>\s+.*$
TailFrom(word) == Suffix(<<Lit(word), Plus(WS), Star(AnyChar)>>)

\* ENTITY_SUFFIXES, in the order of the list. The names given to re.sub are
\* uppercased before, so re.IGNORECASE changes nothing.
ENTITY_SUFFIXES == <<
    Suffix(<<Lit("LIMITED"), Plus(WS), Lit("LIABILITY"), Plus(WS), Lit("COMPANY")>>),
    Suffix(<<Lit("LIMITED"), Plus(WS), Lit("PARTNERSHIP")>>),
    Suffix(<<Lit("LIMITED"), Plus(WS), Lit("LIABILITY"), Plus(WS), Lit("PARTNERSHIP")>>),
    Suffix(<<Lit("INCORPORATED")>>),
    Suffix(<<Lit("CORPORATION")>>),
    Suffix(<<Lit("COMPANY")>>),
    Suffix(<<Lit("LIMITED")>>),
    Suffix(<<Lit("L"), OptDot, Lit("L"), OptDot, Lit("C"), OptDot>>),
    Suffix(<<Lit("LLC"), OptDot>>),
    Suffix(<<Lit("L"), OptDot, Lit("L"), OptDot, Lit("P"), OptDot>>),
    Suffix(<<Lit("LLP"), OptDot>>),
    Suffix(<<Lit("L"), OptDot, Lit("P"), OptDot>>),
    Suffix(<<Lit("LP"), OptDot>>),
    Suffix(<<Lit("P"), OptDot, Lit("L"), OptDot, Lit("L"), OptDot, Lit("C"), OptDot>>),
    Suffix(<<Lit("PLLC"), OptDot>>),
    Suffix(<<Lit("INC"), OptDot>>),
    Suffix(<<Lit("CORP"), OptDot>>),
    Suffix(<<Lit("LTD"), OptDot>>),
    Suffix(<<Lit("P"), OptDot, Lit("C"), OptDot>>),
    Suffix(<<Lit("PC"), OptDot>>),
    Suffix(<<Lit("CO"), OptDot>>),
    Suffix(<<Lit("ET"), Plus(WS), Lit("AL"), OptDot>>),
    Suffix(<<Lit("ET"), Plus(WS), Lit("UX"), OptDot>>),
    Suffix(<<Lit("ET"), Plus(WS), Lit("VIR"), OptDot>>),
    TailFrom("A/K/A"),
    TailFrom("AKA"),
    TailFrom("F/K/A"),
    TailFrom("FKA"),
    TailFrom("N/K/A"),
    TailFrom("D/B/A"),
    TailFrom("DBA") >>

\* (?:\s|$|,)
AfterInitials == Alt(<<WS, Eos, Lit(",")>>)

\* re.search(pattern, text) is not None
Found(r, text) == Search(r, text) # None

\* \b<word>\b
WholeWord(word) == Cat(<<Wb, Lit(word), Wb>>)

\* len(text.replace(",", " ").split())
WordCount(text) ==
    Let(Replace(text, ",", " "), LAMBDA t :
        Cardinality({i \in 1..Len(t) : CharAt(t, i) \notin Whitespace
                                       /\ (i = 1 \/ CharAt(t, i - 1) \in Whitespace)}))

DetectEntityType(text) ==
    Let(Upper(text), LAMBDA text_upper :
       \* L\.?L\.?C\.?(?:\s|$|,)  or  \bLLC\b
       IF Found(Cat(<<Lit("L"), OptDot, Lit("L"), OptDot, Lit("C"), OptDot, AfterInitials>>), text_upper)
          \/ Found(WholeWord("LLC"), text_upper)
       THEN Some("llc")
       \* L\.?P\.?(?:\s|$|,)  or  \bLP\b
       ELSE IF Found(Cat(<<Lit("L"), OptDot, Lit("P"), OptDot, AfterInitials>>), text_upper)
               \/ Found(WholeWord("LP"), text_upper)
       THEN Some("limited_partnership")
       \* LIMITED\s+PARTNERSHIP
       ELSE IF Found(Cat(<<Lit("LIMITED"), Plus(WS), Lit("PARTNERSHIP")>>), text_upper)
       THEN Some("limited_partnership")
       \* L\.?L\.?P\.?(?:\s|$|,)  or  \bLLP\b
       ELSE IF Found(Cat(<<Lit("L"), OptDot, Lit("L"), OptDot, Lit("P"), OptDot, AfterInitials>>), text_upper)
               \/ Found(WholeWord("LLP"), text_upper)
       THEN Some("llp")
       \* \b(INC|INCORPORATED|CORP|CORPORATION)\b
       ELSE IF Found(Cat(<<Wb, Alt(<<Lit("INC"), Lit("INCORPORATED"), Lit("CORP"), Lit("CORPORATION")>>), Wb>>),
                     text_upper)
       THEN Some("corporation")
       \* P\.?L\.?L\.?C\.?(?:\s|$|,)  or  \bPLLC\b
       ELSE IF Found(Cat(<<Lit("P"), OptDot, Lit("L"), OptDot, Lit("L"), OptDot, Lit("C"), OptDot,
                           AfterInitials>>), text_upper)
               \/ Found(WholeWord("PLLC"), text_upper)
       THEN Some("pllc")
       \* \bCO\.(?:\s|$|,)  and no COMPANY
       ELSE IF Found(Cat(<<Wb, Lit("CO."), AfterInitials>>), text_upper)
               /\ ~Found(Lit("COMPANY"), text_upper)
       THEN Some("company")
       ELSE IF Found(WholeWord("TRUST"), text_upper) THEN Some("trust")
       ELSE IF Found(WholeWord("ESTATE"), text_upper) THEN Some("estate")
       \* \b(ET\s+UX|ET\s+VIR|ET\s+AL)\b
       ELSE IF Found(Cat(<<Wb, Alt(<<Cat(<<Lit("ET"), Plus(WS), Lit("UX")>>),
                                     Cat(<<Lit("ET"), Plus(WS), Lit("VIR")>>),
                                     Cat(<<Lit("ET"), Plus(WS), Lit("AL")>>)>>), Wb>>), text_upper)
       THEN Some("individual")
       \* re.match(r"^[A-Z\s,.\'-]+$", text_upper) and at most four words
       ELSE IF Match(Cat(<<Bos, Plus(Cls(UpperLetters \cup Whitespace \cup {",", ".", "'", "-"})), Eos>>),
                     text_upper) # None
               /\ WordCount(text_upper) <= 4
       THEN Some("individual")
       ELSE None)

\* dataclass NormalizedParty
NormalizedParty(original_name, normalized_name, entity_type) ==
    [original_name |-> original_name, normalized_name |-> normalized_name,
     entity_type |-> entity_type]

RECURSIVE RemoveEntitySuffixes(_, _, _)
\* The loop of lines 387-388 over the suffix patterns lo..hi, in order: the
\* first half of them, then the second half on what the first has left.
RemoveEntitySuffixes(text, lo, hi) ==
    IF lo = hi THEN Sub(ENTITY_SUFFIXES[lo], "", text)
    ELSE Let((lo + hi) \div 2, LAMBDA mid :
             Let(RemoveEntitySuffixes(text, lo, mid),
                 LAMBDA stripped : RemoveEntitySuffixes(stripped, mid + 1, hi)))

\* text after the loop over ENTITY_SUFFIXES
WithoutSuffixes(text) == RemoveEntitySuffixes(text, 1, Len(ENTITY_SUFFIXES))

\* A clean-up that stops after the removal of the single letters.
CleanNameKeepsGaps(text) ==
    LET no_punct == Sub(NCls(WordChars \cup Whitespace \cup {"-"}), " ", text)
        spaced == Strip(Sub(Plus(WS), " ", no_punct))
    IN Sub(Cat(<<Wb, Cls(UpperLetters), Wb>>), "", spaced)

\* Lines 390-398: punctuation, whitespace, single letters, whitespace.
CleanName(text) ==
    LET no_punct == Sub(NCls(WordChars \cup Whitespace \cup {"-"}), " ", text)
        spaced == Strip(Sub(Plus(WS), " ", no_punct))
        no_initials == Sub(Cat(<<Wb, Cls(UpperLetters), Wb>>), "", spaced)
    IN Strip(Sub(Plus(WS), " ", no_initials))

NormalizePartyName(name) ==
    IF name = "" THEN NormalizedParty("", "", None)
    ELSE Let(Strip(name), LAMBDA original :
         Let(Upper(original), LAMBDA text :
             NormalizedParty(original, CleanName(WithoutSuffixes(text)),
                             DetectEntityType(text))))

(***************************************************************************)
(* Calls of generate_spatial_key                                           *)
(***************************************************************************)

VARIABLES key_pc, key_parts, key_desc, key_out

keyVars == <<key_pc, key_parts, key_desc, key_out>>

\* The five families of section/township/range descriptions of
\* _extract_section_township_range, by the pattern that is to read them.
KeyFamilies == {"verbose", "compact", "reversed", "separate", "bare"}

KeyPlaces == {[state |-> "ND", county |-> "Williams"], [state |-> "OK", county |-> "Texas"]}
KeySections == {"15", "24"}
KeyTownships == {"154N", "5S"}
KeyRanges == {"97W", "4W"}
KeyAliquots == {None, Some("NW4")}

KeyComponents ==
    {[state |-> pl.state, county |-> pl.county, section |-> sec, township |-> twp,
      range |-> rng, aliquot |-> alq] :
        pl \in KeyPlaces, sec \in KeySections, twp \in KeyTownships, rng \in KeyRanges,
        alq \in KeyAliquots}

\* Descriptions that lack a required part (TestGenerateSpatialKey and more).
IncompleteDescriptions ==
    {"", "Some land in Oklahoma", "Section 15", "Section 15, T154N, R97W, ND",
     "Williams County, ND", "Sec 14-3N-4W, Garfield County"}

\* "154N" as "154 North"
Spelled(v) ==
    LET d == CharAt(v, Len(v))
    IN SubSeq(v, 1, Len(v) - 1) \o " "
       \o (CASE d = "N" -> "North" [] d = "S" -> "South" [] d = "E" -> "East" [] d = "W" -> "West")

\* "NW4" as "NW/4"
Fraction(a) == SubSeq(a, 1, Len(a) - 1) \o "/" \o CharAt(a, Len(a))

\* The legal description written from the components c in the form of a
\* family, as the docstrings and the tests of the module write them.
Compose(family, c) ==
    (IF c.aliquot = None THEN "" ELSE Fraction(Get(c.aliquot)) \o " of ")
    \o (CASE family = "verbose" ->
               "Section " \o c.section \o ", Township " \o Spelled(c.township)
               \o ", Range " \o Spelled(c.range)
          [] family = "compact" -> "Sec " \o c.section \o "-" \o c.township \o "-" \o c.range
          [] family = "reversed" -> "T" \o c.township \o "-R" \o c.range \o ", Section " \o c.section
          [] family = "separate" -> "Section " \o c.section \o " in T" \o c.township \o " R" \o c.range
          [] family = "bare" -> c.section \o "-" \o c.township \o "-" \o c.range)
    \o ", " \o c.county \o " County, " \o c.state

KeyInit ==
    /\ key_pc = "input"
    /\ \/ \E family \in KeyFamilies : \E c \in KeyComponents :
             /\ key_parts = Some([family |-> family, c |-> c])
             /\ key_desc = Compose(family, c)
       \/ /\ key_parts = None
          /\ key_desc \in IncompleteDescriptions
    /\ key_out = None

KeyIdle == key_pc = "idle" /\ key_parts = None /\ key_desc = "" /\ key_out = None

\* result = generate_spatial_key(key_desc)
GenerateKey ==
    /\ key_pc = "input"
    /\ key_out' = GenerateSpatialKey(key_desc)
    /\ key_pc' = "done"
    /\ UNCHANGED <<key_parts, key_desc>>

\* Descriptions that differ in how the state is written: a full state name
\* or none (name "" and no abbreviation), and after or before it the tail of
\* a two-letter abbreviation or none.  delimited says whether the
\* abbreviation stands between a comma or blank and the end, a comma or a
\* blank and digit.
StateNamesWritten ==
    {[name |-> "", abbrev |-> None],
     [name |-> "North Dakota", abbrev |-> Some("ND")],
     [name |-> "Oklahoma", abbrev |-> Some("OK")],
     [name |-> "Arkansas", abbrev |-> Some("AR")],
     [name |-> "Kansas", abbrev |-> Some("KS")],
     [name |-> "Virginia", abbrev |-> Some("VA")],
     [name |-> "West Virginia", abbrev |-> Some("WV")],
     [name |-> "New Mexico", abbrev |-> Some("NM")]}

StateTailsWritten ==
    {[tail |-> "", abbrev |-> None, delimited |-> FALSE],
     [tail |-> "ND", abbrev |-> Some("ND"), delimited |-> TRUE],
     [tail |-> "WV, USA", abbrev |-> Some("WV"), delimited |-> TRUE],
     [tail |-> "KS 67801", abbrev |-> Some("KS"), delimited |-> TRUE],
     [tail |-> "ND58801", abbrev |-> Some("ND"), delimited |-> FALSE],
     [tail |-> "XND", abbrev |-> Some("ND"), delimited |-> FALSE],
     [tail |-> "OKC", abbrev |-> Some("OK"), delimited |-> FALSE]}

\* The description of one tract with the state written as given.
ComposeState(full, tail, full_first) ==
    LET parts == SelectSeq(IF full_first THEN <<full.name, tail.tail>> ELSE <<tail.tail, full.name>>,
                           LAMBDA x : x # "")
    IN Join(", ", <<"Sec 15-154N-97W", "Williams County">> \o parts)

StateInit ==
    /\ key_pc = "input"
    /\ \E full \in StateNamesWritten : \E tail \in StateTailsWritten : \E full_first \in BOOLEAN :
          /\ key_parts = Some([full |-> full, tail |-> tail])
          /\ key_desc = ComposeState(full, tail, full_first)
    /\ key_out = None

\* Lands texts that describe one tract or two, each in the form of a family
\* or as a township and range without a section ("no_section"), the second
\* ("none" for no second tract) after the first.
TractForms == KeyFamilies \cup {"no_section"}

TractA == [state |-> "ND", county |-> "Williams", section |-> "15", township |-> "154N",
           range |-> "97W", aliquot |-> None]
TractB == [state |-> "ND", county |-> "Williams", section |-> "24", township |-> "5S",
           range |-> "4W", aliquot |-> None]

ComposeTract(form, c) ==
    IF form = "no_section"
    THEN "T" \o c.township \o " R" \o c.range \o ", " \o c.county \o " County, " \o c.state
    ELSE Compose(form, c)

FamilyInit ==
    /\ key_pc = "input"
    /\ \E first \in TractForms : \E second \in TractForms \cup {"none"} :
       \E cs \in {<<TractA, TractB>>, <<TractB, TractA>>} :
          /\ key_parts = Some([first |-> first, second |-> second, cs |-> cs])
          /\ key_desc = ComposeTract(first, cs[1])
                        \o (IF second = "none" THEN "" ELSE "; " \o ComposeTract(second, cs[2]))
    /\ key_out = None

(***************************************************************************)
(* Calls of _extract_section_township_range                                *)
(***************************************************************************)

VARIABLES str_pc, str_text, str_out

strVars == <<str_pc, str_text, str_out>>

\* Uppercase texts that lack a section, a township, a range or a direction,
\* or write them in an order no pattern takes.
PartialDescriptions ==
    {"", "RANDOM TEXT", "SECTION 15", "T154N R97W", "T154N-R97W, WILLIAMS COUNTY, ND",
     "TOWNSHIP 154 NORTH, RANGE 97 WEST", "SECTION 15, TOWNSHIP 154 NORTH", "SEC 15-154N",
     "15-154N", "154N-97W", "T154N R97W LOTS 5", "SECTION 15, TOWNSHIP 154, RANGE 97",
     "S15-T154-R97", "SECTION , T154N R97W", "R97W T154N SEC 15", "T154N R97W AND 15-5S-4W"}

StrInit ==
    /\ str_pc = "input"
    /\ \/ \E family \in KeyFamilies : \E c \in KeyComponents :
             c.state = "ND" /\ str_text = Upper(Compose(family, c))
       \/ str_text \in PartialDescriptions
    /\ str_out = None

StrIdle == str_pc = "idle" /\ str_text = "" /\ str_out = None

\* result = _extract_section_township_range(str_text)
ExtractStr ==
    /\ str_pc = "input"
    /\ str_out' = Some(ExtractSectionTownshipRange(str_text))
    /\ str_pc' = "done"
    /\ UNCHANGED str_text

(***************************************************************************)
(* Calls of _extract_aliquot                                               *)
(***************************************************************************)

\* Bound: the aliquot notations written in one text.
MaxParts == 3

VARIABLES alq_pc, alq_written, alq_text, alq_out

alqVars == <<alq_pc, alq_written, alq_text, alq_out>>

\* An aliquot part as a text writes it: fractionally or spelled out.
AliquotNotations ==
    {[part |-> "NE4", text |-> "NE/4"], [part |-> "NE4", text |-> "NORTHEAST QUARTER"],
     [part |-> "NW4", text |-> "NW/4"], [part |-> "NW4", text |-> "NORTH WEST 1/4"]}

\* What stands between two notations.
AliquotSeparators == {" AND ", " "}

\* The uppercase text that writes the notations ns in order.
ComposeAliquots(ns, sep) == Join(sep, [k \in 1..Len(ns) |-> ns[k].text])

AlqInit ==
    /\ alq_pc = "input"
    /\ \E n \in 0..MaxParts : \E ns \in [1..n -> AliquotNotations] :
       \E sep \in AliquotSeparators :
          /\ alq_written = ns
          /\ alq_text = ComposeAliquots(ns, sep)
    /\ alq_out = None

AlqIdle == alq_pc = "idle" /\ alq_written = <<>> /\ alq_text = "" /\ alq_out = None

\* result = _extract_aliquot(alq_text); alq_out holds the returned value.
ExtractAliquotCall ==
    /\ alq_pc = "input"
    /\ alq_out' = Some(ExtractAliquot(alq_text))
    /\ alq_pc' = "done"
    /\ UNCHANGED <<alq_written, alq_text>>

(***************************************************************************)
(* Calls of normalize_party_name                                           *)
(***************************************************************************)

VARIABLES party_pc, party_written, party_name, party_out, party_again

partyVars == <<party_pc, party_written, party_name, party_out, party_again>>

\* Legal names without their entity suffix.
PartyBases == {"Smith Oil", "J.R. Smith", "Smith Oil Company"}

\* The written forms of one entity suffix, by entity ("" is the bare name).
SuffixForms ==
    [none |-> {""},
     llc |-> {"LLC", "L.L.C.", "LLC.", "Limited Liability Company"},
     inc |-> {"Inc", "Inc.", "Incorporated"},
     pllc |-> {"PLLC", "P.L.L.C."}]

\* One way of writing a name: the suffix form, a comma before it or not,
\* the periods of the base kept or not, the letters as written or all lower.
Written(base, form, comma, periods, lower) ==
    LET b == IF periods THEN base ELSE Replace(base, ".", "")
        n == IF form = "" THEN b ELSE b \o (IF comma THEN ", " ELSE " ") \o form
    IN IF lower THEN Lower(n) ELSE n

PartyInit ==
    /\ party_pc = "input"
    /\ \E base \in PartyBases : \E entity \in DOMAIN SuffixForms :
       \E form \in SuffixForms[entity] : \E comma, periods, lower \in BOOLEAN :
          /\ party_written = [base |-> base, entity |-> entity, form |-> form]
          /\ party_name = Written(base, form, comma, periods, lower)
    /\ party_out = None
    /\ party_again = None

PartyIdle ==
    /\ party_pc = "idle"
    /\ party_written = [base |-> "", entity |-> "none", form |-> ""]
    /\ party_name = ""
    /\ party_out = None
    /\ party_again = None

\* first = normalize_party_name(party_name)
NormalizeParty ==
    /\ party_pc = "input"
    /\ party_out' = Some(NormalizePartyName(party_name))
    /\ party_pc' = "normalized"
    /\ UNCHANGED <<party_written, party_name, party_again>>

\* again = normalize_party_name(first.normalized_name)
NormalizeAgain ==
    /\ party_pc = "normalized"
    /\ party_again' = Some(NormalizePartyName(Get(party_out).normalized_name))
    /\ party_pc' = "again"
    /\ UNCHANGED <<party_written, party_name, party_out>>

\* Names given to normalize_party_name to see their entity type: a base name
\* (a usual one, or an empty, blank or punctuation-only one) and the written
\* indicator of one entity type, by the type it indicates.
EntityBases == {"Smith Oil", "John Smith", "", "   ", "..."}

EntityForms ==
    [llc |-> {"LLC", "L.L.C."},
     limited_partnership |-> {"LP", "L.P.", "Limited Partnership"},
     llp |-> {"LLP", "L.L.P."},
     corporation |-> {"Inc", "Incorporated", "Corp", "Corporation"},
     pllc |-> {"PLLC", "P.L.L.C."},
     company |-> {"Co."},
     trust |-> {"Trust"},
     estate |-> {"Estate"},
     individual |-> {"et ux", "et vir", "et al", ""}]

EntityInit ==
    /\ party_pc = "input"
    /\ \E base \in EntityBases : \E entity \in DOMAIN EntityForms :
       \E form \in EntityForms[entity] : \E comma \in BOOLEAN :
          /\ party_written = [base |-> base, entity |-> entity, form |-> form]
          /\ party_name = Written(base, form, comma, TRUE, FALSE)
    /\ party_out = None
    /\ party_again = None

\* Bound: the tokens of a raw name.
MaxNameTokens == 2

\* Names as they may come out of an OCR'd instrument: tokens with initials,
\* lowercase letters, punctuation, hyphens, digits, an underscore and an
\* entity suffix, joined by a blank, by a tab and a newline, by a comma and a
\* blank, or by nothing.
RawTokens == {"J", "r.", "Smith-Jones", "&", "x_1", "LLC"}

RawSeparators == {" ", "\t\n", ", ", ""}

\* The name that writes the tokens ts in order.
ComposeRawName(ts, sep) == Join(sep, ts)

RawNameInit ==
    /\ party_pc = "input"
    /\ \E n \in 0..MaxNameTokens : \E ts \in [1..n -> RawTokens] : \E sep \in RawSeparators :
          /\ party_written = [base |-> ComposeRawName(ts, sep), entity |-> "none", form |-> ""]
          /\ party_name = ComposeRawName(ts, sep)
    /\ party_out = None
    /\ party_again = None

(***************************************************************************)
(* Calls of _detect_entity_type                                            *)
(***************************************************************************)

\* Bound: the words of a name.
MaxNameWords == 5

VARIABLES det_pc, det_written, det_text, det_out

detVars == <<det_pc, det_written, det_text, det_out>>

\* Words of personal names: letters only, none an entity indicator.
NameWords == <<"JOHN", "Q", "ADAMS", "SMITH", "JONES", "BROWN", "GREEN">>

\* Last words of a name: the text, the words it counts for once commas are
\* blanks, and whether all its characters are letters, commas, periods,
\* apostrophes or hyphens. None is the name of an entity type.
LastWords ==
    {[text |-> "O'BRIEN", words |-> 1, plain |-> TRUE],
     [text |-> "SMITH-JONES", words |-> 1, plain |-> TRUE],
     [text |-> "JR.", words |-> 1, plain |-> TRUE],
     [text |-> "SMITH,JOHN", words |-> 2, plain |-> TRUE],
     [text |-> "KULP", words |-> 1, plain |-> TRUE],
     [text |-> "3RD", words |-> 1, plain |-> FALSE],
     [text |-> "&", words |-> 1, plain |-> FALSE]}

\* The name of n words whose last word is last, or the n-th of NameWords.
ComposeName(n, last) ==
    Join(" ", [k \in 1..n |-> IF k = n /\ last # None THEN Get(last).text ELSE NameWords[k]])

DetInit ==
    /\ det_pc = "input"
    /\ \E n \in 0..MaxNameWords :
       \E last \in {None} \cup (IF n = 0 THEN {} ELSE {Some(w) : w \in LastWords}) :
       \E lower \in BOOLEAN :
          /\ det_written = [words |-> IF last = None THEN n ELSE n - 1 + Get(last).words,
                            plain |-> IF last = None THEN TRUE ELSE Get(last).plain]
          /\ det_text = IF lower THEN Lower(ComposeName(n, last)) ELSE ComposeName(n, last)
    /\ det_out = None

DetIdle ==
    /\ det_pc = "idle"
    /\ det_written = [words |-> 0, plain |-> TRUE]
    /\ det_text = ""
    /\ det_out = None

\* result = _detect_entity_type(det_text); det_out holds the returned value.
DetectEntity ==
    /\ det_pc = "input"
    /\ det_out' = Some(DetectEntityType(det_text))
    /\ det_pc' = "done"
    /\ UNCHANGED <<det_written, det_text>>

(***************************************************************************)
(* Calls of _classify_exhibit_type                                         *)
(***************************************************************************)

VARIABLES class_in, class_out

classVars == <<class_in, class_out>>

\* Markers find_split_points may pass, with the kind of indicator each
\* contains ("" for none).
ClassMarkers ==
    {[marker |-> "EXHIBIT A", kind |-> ""],
     [marker |-> "ATTACHMENT 1", kind |-> ""],
     [marker |-> "SCHEDULE OF LEASES", kind |-> "table"],
     [marker |-> "LEGAL DESCRIPTION", kind |-> "legal_descriptions"]}

\* Words of a page header that carry an indicator of each kind, or none.
ClassTableWords == {"", "Wells and Units", "lessor"}
ClassLegalWords == {"", "Property in Section 15", "metes and bounds"}
ClassImageWords == {"", "Survey Plat", "Diagram"}

\* The header text of a page: the marker and the words after it.
HeaderOf(marker, words) ==
    Join(" - ", <<marker>> \o SelectSeq(words, LAMBDA w : w # ""))

ClassInit ==
    /\ \E m \in ClassMarkers : \E t \in ClassTableWords : \E l \in ClassLegalWords :
       \E i \in ClassImageWords : \E image_first \in BOOLEAN :
          class_in = Some([marker |-> m.marker,
                           text |-> HeaderOf(m.marker, IF image_first THEN <<i, l, t>> ELSE <<t, l, i>>),
                           kinds |-> {m.kind} \cup (IF t = "" THEN {} ELSE {"table"})
                                     \cup (IF l = "" THEN {} ELSE {"legal_descriptions"})
                                     \cup (IF i = "" THEN {} ELSE {"image"})])
    /\ class_out = None

ClassIdle == class_in = None /\ class_out = None

\* exhibit_type = _classify_exhibit_type(marker, text)
Classify ==
    /\ class_in # None
    /\ class_out = None
    /\ class_out' = Some(ClassifyExhibitType(Get(class_in).marker, Get(class_in).text))
    /\ UNCHANGED class_in

(***************************************************************************)
(* Calls of cleanup_temp_files                                             *)
(***************************************************************************)

\* Bound: the exhibits of the result given to cleanup_temp_files.
MaxCleanExhibits == 2

VARIABLES
    clean_pc,       \* "input", "cleaned" after one call, "cleaned_again" after two,
                    \* "raised" when os.remove raised
    clean_result,   \* the SplitResult argument
    clean_files,    \* the files on disk
    clean_removed   \* the os.remove calls that succeeded, in order

cleanVars == <<clean_pc, clean_result, clean_files, clean_removed>>

\* A file on disk that no result names.
OTHER_PATH == "/tmp/other.pdf"

\* The results a caller may hold: the body path set or not, and for each
\* exhibit its path set or not.
CleanResults ==
    {[SplitResult(PDF_PATH, 0) EXCEPT
         !.body_path = IF body THEN Some(BodyPath) ELSE None,
         !.exhibits = [i \in 1..n |->
                          [ExhibitInfo("EXHIBIT A", i, "table") EXCEPT
                              !.path = IF i \in with_path THEN Some(ExhibitPath(i - 1)) ELSE None]]] :
        body \in BOOLEAN, n \in 0..MaxCleanExhibits, with_path \in SUBSET (1..MaxCleanExhibits)}

\* The paths cleanup_temp_files looks at, in its order: result.body_path,
\* then exhibit.path of every exhibit (None where unset).
PathsOf(res) == <<res.body_path>> \o [i \in 1..Len(res.exhibits) |-> res.exhibits[i].path]

\* The paths of res that are set.
NamedPaths(res) == {Get(PathsOf(res)[i]) : i \in {j \in 1..Len(PathsOf(res)) : Truthy(PathsOf(res)[j])}}

CleanInit ==
    /\ clean_pc = "input"
    /\ clean_result \in CleanResults
    /\ clean_files \in SUBSET ({BodyPath, OTHER_PATH} \cup {ExhibitPath(i - 1) : i \in 1..MaxCleanExhibits})
    /\ clean_removed = <<>>

CleanIdle ==
    /\ clean_pc = "idle"
    /\ clean_result = SplitResult("", 0)
    /\ clean_files = {}
    /\ clean_removed = <<>>

RECURSIVE RemoveFrom(_, _, _, _, _)
\* The body of cleanup_temp_files from the i-th path on, with fs on disk and
\* removed the calls made: a path that is set and exists is removed; the
\* os.remove of the fail-th path raises (fail = 0: none does).
RemoveFrom(paths, i, fs, removed, fail) ==
    IF i > Len(paths) THEN [files |-> fs, removed |-> removed, raised |-> FALSE]
    ELSE IF Truthy(paths[i]) /\ Get(paths[i]) \in fs
    THEN IF i = fail THEN [files |-> fs, removed |-> removed, raised |-> TRUE]
         ELSE RemoveFrom(paths, i + 1, fs \ {Get(paths[i])}, Append(removed, Get(paths[i])), fail)
    ELSE RemoveFrom(paths, i + 1, fs, removed, fail)

\* A cleanup that removes the body file only.
CleanupTempFilesBodyOnly ==
    /\ clean_pc \in {"input", "cleaned"}
    /\ LET out == RemoveFrom(<<clean_result.body_path>>, 1, clean_files, clean_removed, 0)
       IN /\ clean_files' = out.files
          /\ clean_removed' = out.removed
          /\ clean_pc' = IF clean_pc = "input" THEN "cleaned" ELSE "cleaned_again"
    /\ UNCHANGED clean_result

\* cleanup_temp_files(clean_result), the first call or the second.
CleanupTempFiles ==
    /\ clean_pc \in {"input", "cleaned"}
    /\ \E fail \in 0..Len(PathsOf(clean_result)) :
         LET out == RemoveFrom(PathsOf(clean_result), 1, clean_files, clean_removed, fail)
         IN /\ fail # 0 => out.raised
            /\ clean_files' = out.files
            /\ clean_removed' = out.removed
            /\ clean_pc' = IF out.raised THEN "raised"
                           ELSE IF clean_pc = "input" THEN "cleaned" ELSE "cleaned_again"
    /\ UNCHANGED clean_result

(***************************************************************************)
(* The splitter on a document with one exhibit that runs to the end        *)
(***************************************************************************)

\* Bound: the pages of the document.
ScenarioPages == 15

\* The scan_pages arguments tried: the default and a window shorter than
\* the document.
DEFAULT_SCAN_PAGES == 25
ScenarioScanPages == {10, DEFAULT_SCAN_PAGES}

\* Headers of the first page of the exhibit: they contain EXHIBIT A and
\* SCHEDULE OF LEASES.
ScenarioHeaders == {"EXHIBIT A - SCHEDULE OF LEASES", "Schedule of Leases (Exhibit A)"}

VARIABLES scen      \* the document: None, or Some([first, header]) for a document whose
                    \* pages before first carry no marker, whose page first has the
                    \* header, and whose later pages say EXHIBIT A (CONTINUED)

scenVars == <<scen>>

ScenIdle == scen = None

\* What OCR reads at the top of page n of the document.
ScenarioOutcome(n) ==
    [kind |-> "text",
     text |-> IF n < Get(scen).first THEN "Regular document text"
              ELSE IF n = Get(scen).first THEN Get(scen).header
              ELSE "EXHIBIT A (CONTINUED)"]

ScenarioInit ==
    /\ entry \in {"process_document", "direct"}
    /\ pdf_exists \in BOOLEAN
    /\ total_pages = (IF pdf_exists THEN ScenarioPages ELSE 0)
    /\ scan_pages \in ScenarioScanPages
    /\ scen \in {Some([first |-> f, header |-> h]) : f \in 0..(ScenarioPages - 1), h \in ScenarioHeaders}
    /\ pc = "start"
    /\ exc = None
    /\ open_handles = 0
    /\ opens = 0
    /\ page_num = 0
    /\ scanned = <<>>
    /\ split_points = SplitPoints(0)
    /\ dir_made = FALSE
    /\ files = {}
    /\ result = SplitResult("", 0)
    /\ idx = 0
    /\ returned = None
    /\ written = <<>>

\* The scan of the page page_num of the document.
ScanScenarioPage == ScanPageWith({ScenarioOutcome(page_num)})

ScenarioNext ==
    \/ ProcessDocument
    \/ CallFindSplitPoints
    \/ FspOpen
    \/ ScanScenarioPage
    \/ FinishScan
    \/ SplitBody
    \/ SplitEnds
    \/ SplitExhibit
    \/ SplitFinish

(***************************************************************************)
(* graph_builder.py: build_graph_from_extraction                           *)
(***************************************************************************)

\* Bound: the lease records of a call.
MaxLeases == 2

VARIABLES
    gb_pc,          \* "start", "leases" in the loop over lease_records, "returned"
    gb_body,        \* body_extraction: the names of its grantors and grantees
    gb_leases,      \* lease_records
    gb_i,           \* the records of lease_records the loop has gone through
    gb_calls,       \* the calls made on the builder, in order
    gb_created      \* the dictionary created

gbVars == <<gb_pc, gb_body, gb_leases, gb_i, gb_calls, gb_created>>

\* Lease records: the value under "lands" and under "legal" (None for a
\* missing key), with what the record is meant to be.
LeaseRecords ==
    {[kind |-> "missing", lands |-> None, legal |-> None],
     [kind |-> "empty", lands |-> Some(""), legal |-> None],
     [kind |-> "unparsable", lands |-> Some("Some random text"), legal |-> None],
     [kind |-> "tract", lands |-> Some("Sec 14-3N-4W, Garfield County, OK"), legal |-> None],
     [kind |-> "tract", lands |-> None, legal |-> Some("NW/4 of 15-154N-97W, Williams County, ND")]}

\* body_extraction["parties"]: names of grantors and of grantees.
BodyExtractions ==
    {[grantors |-> <<"Al Doe">>, grantees |-> <<"", "Bo Oil, LLC">>],
     [grantors |-> <<>>, grantees |-> <<"Al Doe">>]}

RECURSIVE SeqsOf(_, _)
\* The lists of at most n elements of S.
SeqsOf(S, n) ==
    IF n = 0 THEN {<<>>}
    ELSE LET shorter == SeqsOf(S, n - 1)
         IN shorter \cup {Append(q, x) : q \in {r \in shorter : Len(r) = n - 1}, x \in S}

GbInit ==
    /\ gb_pc = "start"
    /\ gb_body \in BodyExtractions
    /\ gb_leases \in SeqsOf(LeaseRecords, MaxLeases)
    /\ gb_i = 0
    /\ gb_calls = <<>>
    /\ gb_created = [instrument_id |-> None, party_ids |-> <<>>, tract_ids |-> <<>>]

GbIdle ==
    /\ gb_pc = "idle"
    /\ gb_body = [grantors |-> <<>>, grantees |-> <<>>]
    /\ gb_leases = <<>>
    /\ gb_i = 0
    /\ gb_calls = <<>>
    /\ gb_created = [instrument_id |-> None, party_ids |-> <<>>, tract_ids |-> <<>>]

\* A call on the builder: the method, its merge key, and the lease record
\* (from 1, 0 for none) the loop was at.
Call(op, key, lease) == [op |-> op, key |-> key, lease |-> lease]

\* The ids the builder returns: that of the node merged on the key.
INSTRUMENT_ID == "instrument"
PartyId(normalized_name) == "party:" \o normalized_name
TractId(spatial_key) == "tract:" \o spatial_key

\* Lines 681-707: the party ids of the names that are not empty.
PartyIdsOf(names) ==
    LET named == SelectSeq(names, LAMBDA name : name # "")
    IN [k \in 1..Len(named) |-> PartyId(NormalizePartyName(named[k]).normalized_name)]

\* Lines 709-722: one create_conveyed_relationship per grantor and grantee.
ConveyedCalls(grantor_ids, grantee_ids) ==
    [k \in 1..(Len(grantor_ids) * Len(grantee_ids)) |->
        Call("create_conveyed_relationship",
             <<grantor_ids[((k - 1) \div Len(grantee_ids)) + 1],
               grantee_ids[((k - 1) % Len(grantee_ids)) + 1]>>, 0)]

\* Lines 648-722: the instrument, the parties and the conveyances.
GbStart ==
    /\ gb_pc = "start"
    /\ \E ids \in {<<PartyIdsOf(gb_body.grantors), PartyIdsOf(gb_body.grantees)>>} :
           /\ gb_calls' = <<Call("create_instrument", INSTRUMENT_ID, 0)>>
                           \o [k \in 1..Len(ids[1]) |-> Call("create_party", ids[1][k], 0)]
                           \o [k \in 1..Len(ids[2]) |-> Call("create_party", ids[2][k], 0)]
                           \o ConveyedCalls(ids[1], ids[2])
           /\ gb_created' = [gb_created EXCEPT !.instrument_id = Some(INSTRUMENT_ID),
                                               !.party_ids = ids[1] \o ids[2]]
    /\ gb_pc' = "leases"
    /\ UNCHANGED <<gb_body, gb_leases, gb_i>>

\* lease.get("lands") or lease.get("legal")
LandsOf(lease) == IF Truthy(lease.lands) THEN lease.lands ELSE lease.legal

\* The calls of lines 734-767 for the spatial key of the n-th record.
TractCalls(spatial_result, n) ==
    LET section_key == spatial_result.state \o "-" \o spatial_result.county \o "-"
                       \o spatial_result.section \o "-" \o spatial_result.township \o "-"
                       \o spatial_result.range
        tract_id == TractId(spatial_result.key)
    IN << Call("create_tract", spatial_result.key, n),
          Call("create_covers_relationship", <<INSTRUMENT_ID, tract_id>>, n),
          Call("create_section", section_key, n),
          Call("create_in_section_relationship", <<tract_id, section_key>>, n) >>

\* generate_spatial_key(lands) of a record, None when its lands are missing
\* or empty (the loop does not call it then).
SpatialResultOf(lease) ==
    Let(LandsOf(lease), LAMBDA lands :
        IF Truthy(lands) THEN GenerateSpatialKey(Get(lands)) ELSE None)

\* An iteration that makes the tract of a record without looking at whether
\* its lands gave a spatial key: a record without one gets an empty key.
GbLeaseNoSkip ==
    /\ gb_pc = "leases" /\ gb_i < Len(gb_leases)
    /\ \E spatial_result \in {SpatialResultOf(gb_leases[gb_i + 1])} :
       \E made \in {IF spatial_result = None THEN SpatialKey("", "", "", "", "", None)
                    ELSE Get(spatial_result)} :
           /\ gb_calls' = gb_calls \o TractCalls(made, gb_i + 1)
           /\ gb_created' = [gb_created EXCEPT !.tract_ids = Append(@, TractId(made.key))]
    /\ gb_i' = gb_i + 1
    /\ UNCHANGED <<gb_pc, gb_body, gb_leases>>

\* One iteration of the loop over lease_records, lines 725-767.
GbLease ==
    /\ gb_pc = "leases" /\ gb_i < Len(gb_leases)
    /\ \E spatial_result \in {SpatialResultOf(gb_leases[gb_i + 1])} :
           IF spatial_result = None
           THEN UNCHANGED <<gb_calls, gb_created>>
           ELSE /\ gb_calls' = gb_calls \o TractCalls(Get(spatial_result), gb_i + 1)
                /\ gb_created' = [gb_created EXCEPT
                                     !.tract_ids = Append(@, TractId(Get(spatial_result).key))]
    /\ gb_i' = gb_i + 1
    /\ UNCHANGED <<gb_pc, gb_body, gb_leases>>

\* Lines 769-774: return created.
GbReturn ==
    /\ gb_pc = "leases" /\ gb_i >= Len(gb_leases)
    /\ gb_pc' = "returned"
    /\ UNCHANGED <<gb_body, gb_leases, gb_i, gb_calls, gb_created>>

(***************************************************************************)
(* table_extractor.py: extract_tables                                      *)
(***************************************************************************)

\* Bound: the calls of get_document_analysis that find the job in progress or
\* fetch a further page of the response.
MaxPolls == 2

VARIABLES
    tx_pc,          \* "start", "upload", "start_job", "poll", "pages", "parse", "finally",
                    \* "returned", "raised"
    tx_args,        \* the call: os.path.exists(pdf_path), the bucket argument, the
                    \* TEXTRACT_S3_BUCKET variable (None: unset), cleanup
    tx_bucket,      \* the local variable bucket
    tx_polls,       \* calls that found the job in progress or fetched a further page
    tx_pending,     \* in the finally clause: the exception on its way out, or None
    tx_calls,       \* the AWS calls made, in order
    tx_s3,          \* the objects in the bucket
    tx_exc          \* the exception that reached the caller, or None

txVars == <<tx_pc, tx_args, tx_bucket, tx_polls, tx_pending, tx_calls, tx_s3, tx_exc>>

\* f"textract-temp/{uuid.uuid4()}.pdf"
S3_KEY == "textract-temp/UUID.pdf"

TxInit ==
    /\ tx_pc = "start"
    /\ tx_args \in [exists : BOOLEAN, bucket : {None, Some(""), Some("arg-bucket")},
                     env : {None, Some(""), Some("env-bucket")}, cleanup : BOOLEAN]
    /\ tx_bucket = None
    /\ tx_polls = 0
    /\ tx_pending = None
    /\ tx_calls = <<>>
    /\ tx_s3 = {}
    /\ tx_exc = None

TxIdle ==
    /\ tx_pc = "idle"
    /\ tx_args = [exists |-> FALSE, bucket |-> None, env |-> None, cleanup |-> FALSE]
    /\ tx_bucket = None
    /\ tx_polls = 0
    /\ tx_pending = None
    /\ tx_calls = <<>>
    /\ tx_s3 = {}
    /\ tx_exc = None

\* An exception leaves extract_tables before the try block.
TxRaise(name) == tx_pc' = "raised" /\ tx_exc' = Some(name)

\* Control leaves the try block, with an exception (Some) or by return (None).
TxLeaveTry(pending) == tx_pc' = "finally" /\ tx_pending' = pending

\* Lines 440-451: the path and the bucket.
TxCheck ==
    /\ tx_pc = "start"
    /\ IF ~tx_args.exists
       THEN TxRaise("FileNotFoundError") /\ UNCHANGED tx_bucket
       ELSE IF tx_args.bucket = None
       THEN IF ~Truthy(tx_args.env)
            THEN TxRaise("ValueError") /\ UNCHANGED tx_bucket
            ELSE tx_bucket' = tx_args.env /\ tx_pc' = "upload" /\ UNCHANGED tx_exc
       ELSE tx_bucket' = tx_args.bucket /\ tx_pc' = "upload" /\ UNCHANGED tx_exc
    /\ UNCHANGED <<tx_args, tx_polls, tx_pending, tx_calls, tx_s3>>

\* Line 454, _upload_to_s3: s3.upload_file stores the object or raises; it
\* raises for a bucket name that is empty.
TxUpload ==
    /\ tx_pc = "upload"
    /\ tx_calls' = Append(tx_calls, "upload_file")
    /\ \E stored \in (IF Get(tx_bucket) = "" THEN {FALSE} ELSE BOOLEAN) :
         IF stored
         THEN tx_s3' = tx_s3 \cup {S3_KEY} /\ tx_pc' = "start_job" /\ UNCHANGED tx_exc
         ELSE TxRaise("S3UploadFailedError") /\ UNCHANGED tx_s3
    /\ UNCHANGED <<tx_args, tx_bucket, tx_polls, tx_pending>>

\* Line 458, _start_textract_job: start_document_analysis gives a job id or
\* raises.
TxStartJob ==
    /\ tx_pc = "start_job"
    /\ tx_calls' = Append(tx_calls, "start_document_analysis")
    /\ \E started \in BOOLEAN :
         IF started THEN tx_pc' = "poll" /\ UNCHANGED tx_pending
         ELSE TxLeaveTry(Some("ClientError"))
    /\ UNCHANGED <<tx_args, tx_bucket, tx_polls, tx_s3, tx_exc>>

\* Line 459, one turn of the loop of _poll_textract_job (lines 197-214): the
\* time is up, or get_document_analysis raises or reports a status.
TxPoll ==
    /\ tx_pc = "poll"
    /\ \/ /\ TxLeaveTry(Some("TimeoutError"))
          /\ UNCHANGED <<tx_calls, tx_polls>>
       \/ /\ tx_calls' = Append(tx_calls, "get_document_analysis")
          /\ \E status \in {"raises", "SUCCEEDED", "FAILED"}
                          \cup (IF tx_polls < MaxPolls THEN {"IN_PROGRESS"} ELSE {}) :
               CASE status = "raises" -> TxLeaveTry(Some("ClientError")) /\ UNCHANGED tx_polls
                 [] status = "SUCCEEDED" -> tx_pc' = "pages" /\ UNCHANGED <<tx_pending, tx_polls>>
                 [] status = "FAILED" -> TxLeaveTry(Some("RuntimeError")) /\ UNCHANGED tx_polls
                 [] status = "IN_PROGRESS" ->
                        tx_polls' = tx_polls + 1 /\ UNCHANGED <<tx_pc, tx_pending>>
    /\ UNCHANGED <<tx_args, tx_bucket, tx_s3, tx_exc>>

\* Lines 216-234, one turn of the loop over the pages of the response: there
\* is no NextToken, or get_document_analysis raises or gives the next page.
TxPage ==
    /\ tx_pc = "pages"
    /\ \/ /\ tx_pc' = "parse"
          /\ UNCHANGED <<tx_calls, tx_polls, tx_pending>>
       \/ /\ tx_calls' = Append(tx_calls, "get_document_analysis")
          /\ \E fetched \in (IF tx_polls < MaxPolls THEN BOOLEAN ELSE {FALSE}) :
               IF fetched
               THEN tx_polls' = tx_polls + 1 /\ UNCHANGED <<tx_pc, tx_pending>>
               ELSE TxLeaveTry(Some("ClientError")) /\ UNCHANGED tx_polls
    /\ UNCHANGED <<tx_args, tx_bucket, tx_s3, tx_exc>>

\* Lines 462-475: the tables, the lease records and the result, or an
\* exception from parsing the response.
TxParse ==
    /\ tx_pc = "parse"
    /\ \E parsed \in BOOLEAN :
         TxLeaveTry(IF parsed THEN None ELSE Some("KeyError"))
    /\ UNCHANGED <<tx_args, tx_bucket, tx_polls, tx_calls, tx_s3, tx_exc>>

\* Where the finally clause leaves extract_tables.
TxLeave(pending) ==
    /\ tx_pc' = IF pending = None THEN "returned" ELSE "raised"
    /\ tx_exc' = pending
    /\ tx_pending' = None

\* A finally clause that deletes the object only when the try block returned.
TxFinallyOnReturnOnly ==
    /\ tx_pc = "finally"
    /\ IF tx_args.cleanup /\ tx_pending = None
       THEN /\ tx_calls' = Append(tx_calls, "delete_object")
            /\ tx_s3' = tx_s3 \ {S3_KEY}
       ELSE UNCHANGED <<tx_calls, tx_s3>>
    /\ TxLeave(tx_pending)
    /\ UNCHANGED <<tx_args, tx_bucket, tx_polls>>

\* Lines 477-479 with _delete_from_s3 (lines 141-148): delete_object
\* deletes, raises a ClientError that is logged, or raises something else
\* that replaces the exception on its way out.
TxFinally ==
    /\ tx_pc = "finally"
    /\ IF tx_args.cleanup
       THEN /\ tx_calls' = Append(tx_calls, "delete_object")
            /\ \E outcome \in {"deleted", "ClientError", "EndpointConnectionError"} :
                 CASE outcome = "deleted" -> tx_s3' = tx_s3 \ {S3_KEY} /\ TxLeave(tx_pending)
                   [] outcome = "ClientError" -> UNCHANGED tx_s3 /\ TxLeave(tx_pending)
                   [] outcome = "EndpointConnectionError" ->
                          UNCHANGED tx_s3 /\ TxLeave(Some("EndpointConnectionError"))
       ELSE UNCHANGED <<tx_calls, tx_s3>> /\ TxLeave(tx_pending)
    /\ UNCHANGED <<tx_args, tx_bucket, tx_polls>>

(***************************************************************************)
(* graph_builder.py: GraphBuilder.driver and GraphBuilder.close            *)
(***************************************************************************)

\* Bound: the calls of driver and close made on one GraphBuilder.
MaxDriverOps == 4

VARIABLES
    drv_pc,         \* "built" once GraphBuilder(config) has returned
    drv_uri,        \* self.config.uri
    drv_driver,     \* self._driver: None, or Some(n) for the n-th driver created
    drv_created,    \* the calls of GraphDatabase.driver that returned a driver
    drv_closed,     \* the drivers whose close() was called
    drv_log         \* the calls made on the builder, each with what it gave

drvVars == <<drv_pc, drv_uri, drv_driver, drv_created, drv_closed, drv_log>>

\* GraphConfig.uri: the default, or the URI of a database.
ConfigUris == {"", "neo4j+s://test.neo4j.io"}

\* Lines 137-145: __init__.
DrvInit ==
    /\ drv_pc = "built"
    /\ drv_uri \in ConfigUris
    /\ drv_driver = None
    /\ drv_created = 0
    /\ drv_closed = {}
    /\ drv_log = <<>>

DrvIdle ==
    /\ drv_pc = "idle"
    /\ drv_uri = ""
    /\ drv_driver = None
    /\ drv_created = 0
    /\ drv_closed = {}
    /\ drv_log = <<>>

\* An entry of the log: the method, the exception it raised ("" when it
\* returned) and the driver it returned.
DrvCall(op, raised, value) == [op |-> op, raised |-> raised, value |-> value]

\* A driver property that creates a driver on every access.
DriverAlwaysNew ==
    /\ drv_pc = "built"
    /\ Len(drv_log) < MaxDriverOps
    /\ IF drv_uri = ""
       THEN /\ drv_log' = Append(drv_log, DrvCall("driver", "ValueError", None))
            /\ UNCHANGED <<drv_driver, drv_created>>
       ELSE /\ drv_created' = drv_created + 1
            /\ drv_driver' = Some(drv_created + 1)
            /\ drv_log' = Append(drv_log, DrvCall("driver", "", Some(drv_created + 1)))
    /\ UNCHANGED <<drv_pc, drv_uri, drv_closed>>

\* Lines 147-159: the driver property. GraphDatabase.driver returns a new
\* driver or raises.
Driver ==
    /\ drv_pc = "built"
    /\ Len(drv_log) < MaxDriverOps
    /\ IF drv_driver = None
       THEN IF drv_uri = ""
            THEN /\ drv_log' = Append(drv_log, DrvCall("driver", "ValueError", None))
                 /\ UNCHANGED <<drv_driver, drv_created>>
            ELSE \E made \in BOOLEAN :
                   IF made
                   THEN /\ drv_created' = drv_created + 1
                        /\ drv_driver' = Some(drv_created + 1)
                        /\ drv_log' = Append(drv_log, DrvCall("driver", "", Some(drv_created + 1)))
                   ELSE /\ drv_log' = Append(drv_log, DrvCall("driver", "ConfigurationError", None))
                        /\ UNCHANGED <<drv_driver, drv_created>>
       ELSE /\ drv_log' = Append(drv_log, DrvCall("driver", "", drv_driver))
            /\ UNCHANGED <<drv_driver, drv_created>>
    /\ UNCHANGED <<drv_pc, drv_uri, drv_closed>>

\* Lines 161-165 (and __exit__, lines 170-171): close. The driver's close()
\* returns, or raises before self._driver is reset.
Close ==
    /\ drv_pc = "built"
    /\ Len(drv_log) < MaxDriverOps
    /\ IF drv_driver = None
       THEN /\ drv_log' = Append(drv_log, DrvCall("close", "", None))
            /\ UNCHANGED <<drv_driver, drv_closed>>
       ELSE /\ drv_closed' = drv_closed \cup {Get(drv_driver)}
            /\ \E closed \in BOOLEAN :
                 IF closed
                 THEN /\ drv_driver' = None
                      /\ drv_log' = Append(drv_log, DrvCall("close", "", None))
                 ELSE /\ UNCHANGED drv_driver
                      /\ drv_log' = Append(drv_log, DrvCall("close", "DriverError", None))
    /\ UNCHANGED <<drv_pc, drv_uri, drv_created>>

(***************************************************************************)
(* Specifications                                                          *)
(***************************************************************************)

vars == <<splitVars, consVars, keyVars, partyVars, classVars, cleanVars, scenVars, gbVars, txVars,
         drvVars, alqVars, detVars, strVars>>

Init == SplitInit /\ ConsIdle /\ KeyIdle /\ PartyIdle /\ ClassIdle /\ CleanIdle /\ ScenIdle /\ GbIdle /\ TxIdle
    /\ DrvIdle
    /\ AlqIdle
    /\ DetIdle
    /\ StrIdle
Next == SplitNext /\ UNCHANGED <<consVars, keyVars, partyVars, classVars, cleanVars, scenVars, gbVars, txVars, drvVars, alqVars, detVars, strVars>>
Spec == Init /\ [][Next]_vars

InitCons == SplitIdle /\ ConsInit /\ KeyIdle /\ PartyIdle /\ ClassIdle /\ CleanIdle /\ ScenIdle /\ GbIdle /\ TxIdle
    /\ DrvIdle
    /\ AlqIdle
    /\ DetIdle
    /\ StrIdle
NextCons == Consolidate /\ UNCHANGED <<splitVars, keyVars, partyVars, classVars, cleanVars, scenVars, gbVars, txVars, drvVars, alqVars, detVars, strVars>>
SpecCons == InitCons /\ [][NextCons]_vars

InitKey == SplitIdle /\ ConsIdle /\ KeyInit /\ PartyIdle /\ ClassIdle /\ CleanIdle /\ ScenIdle /\ GbIdle /\ TxIdle
    /\ DrvIdle
    /\ AlqIdle
    /\ DetIdle
    /\ StrIdle
NextKey == GenerateKey /\ UNCHANGED <<splitVars, consVars, partyVars, classVars, cleanVars, scenVars, gbVars, txVars, drvVars, alqVars, detVars, strVars>>
SpecKey == InitKey /\ [][NextKey]_vars

InitState == SplitIdle /\ ConsIdle /\ StateInit /\ PartyIdle /\ ClassIdle /\ CleanIdle /\ ScenIdle /\ GbIdle /\ TxIdle
    /\ DrvIdle
    /\ AlqIdle
    /\ DetIdle
    /\ StrIdle
SpecState == InitState /\ [][NextKey]_vars

InitFamily == SplitIdle /\ ConsIdle /\ FamilyInit /\ PartyIdle /\ ClassIdle /\ CleanIdle /\ ScenIdle /\ GbIdle /\ TxIdle
    /\ DrvIdle
    /\ AlqIdle
    /\ DetIdle
    /\ StrIdle
SpecFamily == InitFamily /\ [][NextKey]_vars

InitParty == SplitIdle /\ ConsIdle /\ KeyIdle /\ PartyInit /\ ClassIdle /\ CleanIdle /\ ScenIdle /\ GbIdle /\ TxIdle
    /\ DrvIdle
    /\ AlqIdle
    /\ DetIdle
    /\ StrIdle
NextParty == (NormalizeParty \/ NormalizeAgain) /\ UNCHANGED <<splitVars, consVars, keyVars, classVars, cleanVars, scenVars, gbVars, txVars, drvVars, alqVars, detVars, strVars>>
SpecParty == InitParty /\ [][NextParty]_vars

InitEntity == SplitIdle /\ ConsIdle /\ KeyIdle /\ EntityInit /\ ClassIdle /\ CleanIdle /\ ScenIdle /\ GbIdle /\ TxIdle
    /\ DrvIdle
    /\ AlqIdle
    /\ DetIdle
    /\ StrIdle
NextEntity == NormalizeParty /\ UNCHANGED <<splitVars, consVars, keyVars, classVars, cleanVars, scenVars, gbVars, txVars, drvVars, alqVars, detVars, strVars>>
SpecEntity == InitEntity /\ [][NextEntity]_vars

InitRawName == SplitIdle /\ ConsIdle /\ KeyIdle /\ RawNameInit /\ ClassIdle /\ CleanIdle /\ ScenIdle /\ GbIdle /\ TxIdle
    /\ DrvIdle
    /\ AlqIdle
    /\ DetIdle
    /\ StrIdle
NextRawName == NormalizeParty /\ UNCHANGED <<splitVars, consVars, keyVars, classVars, cleanVars, scenVars, gbVars, txVars, drvVars, alqVars, detVars, strVars>>
SpecRawName == InitRawName /\ [][NextRawName]_vars

InitClass == SplitIdle /\ ConsIdle /\ KeyIdle /\ PartyIdle /\ ClassInit /\ CleanIdle /\ ScenIdle /\ GbIdle /\ TxIdle
    /\ DrvIdle
    /\ AlqIdle
    /\ DetIdle
    /\ StrIdle
NextClass == Classify /\ UNCHANGED <<splitVars, consVars, keyVars, partyVars, cleanVars, scenVars, gbVars, txVars, drvVars, alqVars, detVars, strVars>>
SpecClass == InitClass /\ [][NextClass]_vars

InitClean == SplitIdle /\ ConsIdle /\ KeyIdle /\ PartyIdle /\ ClassIdle /\ CleanInit /\ ScenIdle /\ GbIdle /\ TxIdle
    /\ DrvIdle
    /\ AlqIdle
    /\ DetIdle
    /\ StrIdle
NextClean == CleanupTempFiles /\ UNCHANGED <<splitVars, consVars, keyVars, partyVars, classVars, scenVars, gbVars, txVars, drvVars, alqVars, detVars, strVars>>
SpecClean == InitClean /\ [][NextClean]_vars

InitScenario == ScenarioInit /\ ConsIdle /\ KeyIdle /\ PartyIdle /\ ClassIdle /\ CleanIdle /\ GbIdle /\ TxIdle
    /\ DrvIdle
    /\ AlqIdle
    /\ DetIdle
    /\ StrIdle
NextScenario == ScenarioNext /\ UNCHANGED <<consVars, keyVars, partyVars, classVars, cleanVars, scenVars, gbVars, txVars, drvVars, alqVars, detVars, strVars>>
SpecScenario == InitScenario /\ [][NextScenario]_vars

InitGraph == SplitIdle /\ ConsIdle /\ KeyIdle /\ PartyIdle /\ ClassIdle /\ CleanIdle /\ ScenIdle /\ GbInit /\ TxIdle
    /\ DrvIdle
    /\ AlqIdle
    /\ DetIdle
    /\ StrIdle
NextGraph == (GbStart \/ GbLease \/ GbReturn)
             /\ UNCHANGED <<splitVars, consVars, keyVars, partyVars, classVars, cleanVars, scenVars,
                            txVars, drvVars, alqVars, detVars, strVars>>
SpecGraph == InitGraph /\ [][NextGraph]_vars

InitTextract == SplitIdle /\ ConsIdle /\ KeyIdle /\ PartyIdle /\ ClassIdle /\ CleanIdle /\ ScenIdle /\ GbIdle
                /\ TxInit
    /\ DrvIdle
    /\ AlqIdle
    /\ DetIdle
    /\ StrIdle
NextTextract == (TxCheck \/ TxUpload \/ TxStartJob \/ TxPoll \/ TxPage \/ TxParse \/ TxFinally)
                /\ UNCHANGED <<splitVars, consVars, keyVars, partyVars, classVars, cleanVars, scenVars,
                               gbVars, drvVars, alqVars, detVars, strVars>>
SpecTextract == InitTextract /\ [][NextTextract]_vars

InitDriver == SplitIdle /\ ConsIdle /\ KeyIdle /\ PartyIdle /\ ClassIdle /\ CleanIdle /\ ScenIdle /\ GbIdle
    /\ TxIdle
    /\ DrvInit
    /\ AlqIdle
    /\ DetIdle
    /\ StrIdle
NextDriver == (Driver \/ Close)
    /\ UNCHANGED <<splitVars, consVars, keyVars, partyVars, classVars, cleanVars, scenVars, gbVars,
                   txVars, alqVars, detVars, strVars>>
SpecDriver == InitDriver /\ [][NextDriver]_vars

InitAliquot == SplitIdle /\ ConsIdle /\ KeyIdle /\ PartyIdle /\ ClassIdle /\ CleanIdle /\ ScenIdle /\ GbIdle
    /\ TxIdle /\ DrvIdle
    /\ AlqInit
    /\ DetIdle
    /\ StrIdle
NextAliquot == ExtractAliquotCall
    /\ UNCHANGED <<splitVars, consVars, keyVars, partyVars, classVars, cleanVars, scenVars, gbVars,
                   txVars, drvVars, detVars, strVars>>
SpecAliquot == InitAliquot /\ [][NextAliquot]_vars

InitDetect == SplitIdle /\ ConsIdle /\ KeyIdle /\ PartyIdle /\ ClassIdle /\ CleanIdle /\ ScenIdle /\ GbIdle
    /\ TxIdle /\ DrvIdle /\ AlqIdle
    /\ DetInit
    /\ StrIdle
NextDetect == DetectEntity
    /\ UNCHANGED <<splitVars, consVars, keyVars, partyVars, classVars, cleanVars, scenVars, gbVars,
                   txVars, drvVars, alqVars, strVars>>
SpecDetect == InitDetect /\ [][NextDetect]_vars

InitStr == SplitIdle /\ ConsIdle /\ KeyIdle /\ PartyIdle /\ ClassIdle /\ CleanIdle /\ ScenIdle /\ GbIdle
    /\ TxIdle /\ DrvIdle /\ AlqIdle /\ DetIdle
    /\ StrInit
NextStr == ExtractStr
    /\ UNCHANGED <<splitVars, consVars, keyVars, partyVars, classVars, cleanVars, scenVars, gbVars,
                   txVars, drvVars, alqVars, detVars>>
SpecStr == InitStr /\ [][NextStr]_vars

(***************************************************************************)
(* Properties of the splitter                                              *)
(***************************************************************************)

\* The header text of a scanned page contains some exhibit marker.
PageMatched(o) ==
    /\ o.kind = "text"
    /\ \E k \in 1..Len(EXHIBIT_MARKERS) : Contains(Upper(o.text), EXHIBIT_MARKERS[k])

SomePageMatched == \E i \in 1..Len(scanned) : PageMatched(scanned[i][2])

\* C1: the SplitPoints returned by find_split_points has body_end equal to
\* total_pages and no exhibit when no scanned page matched a marker, and
\* body_end equal to the first exhibit's start page otherwise.
C1_BodyEndIsFirstExhibitOrTotal ==
    pc = "planned" =>
        IF SomePageMatched
        THEN /\ Len(split_points.exhibits) > 0
             /\ split_points.body_end = Some(split_points.exhibits[1].start_page)
        ELSE /\ split_points.body_end = Some(total_pages)
             /\ split_points.exhibits = <<>>

\* A plan with two exhibits, the first found after a page without a marker.
C1_Witness ==
    /\ pc = "planned"
    /\ SomePageMatched
    /\ Len(split_points.exhibits) = 2
    /\ split_points.body_end = Some(1)

\* C3: after split_document every exhibit ends one page before the next
\* exhibit starts (the last one on the last page), starts no later than it
\* ends, lies strictly before the next one, and counts end - start + 1 pages.
C3_ExhibitRegionsOrdered ==
    pc = "done" =>
        LET ex == result.exhibits
        IN \A i \in 1..Len(ex) :
            /\ ex[i].end_page # None
            /\ Get(ex[i].end_page) = (IF i < Len(ex) THEN ex[i + 1].start_page - 1
                                      ELSE total_pages - 1)
            /\ ex[i].start_page <= Get(ex[i].end_page)
            /\ i < Len(ex) => Get(ex[i].end_page) < ex[i + 1].start_page
            /\ ex[i].page_count = Get(ex[i].end_page) - ex[i].start_page + 1

\* A finished split with two exhibits and pages after the last marker.
C3_Witness ==
    /\ pc = "done"
    /\ Len(result.exhibits) = 2
    /\ result.exhibits[2].page_count = 2

\* C4: a page of the scan window that fails, in the render or in the OCR, is
\* skipped and the scan goes on past it.
C4_PageFailureNeverAbortsScan ==
    \A i \in 1..Len(scanned) :
        scanned[i][2].kind \in {"render_error", "ocr_error"} =>
            /\ page_num > scanned[i][1]
            /\ ~(pc = "raised" /\ exc = Some("RenderError"))

\* The paths the caller can reach once split_document has ended: those of the
\* result when it was returned, and those written into the plan's exhibits
\* when the caller holds the plan.
ReportedPaths ==
    (IF returned = Some("result")
     THEN {Get(result.body_path) : x \in {y \in {1} : result.body_path # None}}
          \cup {Get(result.exhibits[i].path) : i \in 1..Len(result.exhibits)}
     ELSE {})
    \cup (IF entry = "direct"
          THEN {Get(split_points.exhibits[i].path) :
                  i \in {j \in 1..Len(split_points.exhibits) : split_points.exhibits[j].path # None}}
          ELSE {})

\* C5: when split_document fails while writing a sub-document, every file it
\* wrote before is removed or reported to the caller.
C5_NoOrphanedFilesOnFailure ==
    (pc = "raised" /\ exc = Some("IOError")) => files \subseteq ReportedPaths

\* C6: process_document on a missing path raises FileNotFoundError before
\* any work: no open, no page examined, no directory and no file made.
C6_MissingFileFailsFast ==
    (entry = "process_document" /\ ~pdf_exists /\ pc # "start") =>
        /\ pc = "raised"
        /\ exc = Some("FileNotFoundError")
        /\ opens = 0
        /\ open_handles = 0
        /\ scanned = <<>>
        /\ ~dir_made
        /\ files = {}

\* process_document has been called on a missing path and has raised.
C6_Witness ==
    /\ entry = "process_document"
    /\ ~pdf_exists
    /\ pc = "raised"

\* C17: when the body boundary is page 0, split_document makes no body file
\* (body_path None, body_pages 0, no body file on disk), its body step raises
\* nothing, and the run that finishes has written every exhibit of the plan.
C17_NoBodyAtPageZero ==
    /\ [](split_points.body_end = Some(0) =>
            /\ pc \in {"split_ends", "split_loop", "done"} =>
                  result.body_path = None /\ result.body_pages = 0 /\ BodyPath \notin files
            /\ pc = "done" =>
                  /\ Len(result.exhibits) = Len(split_points.exhibits)
                  /\ \A i \in 1..Len(result.exhibits) :
                        /\ result.exhibits[i].path = Some(ExhibitPath(i - 1))
                        /\ ExhibitPath(i - 1) \in files
                        /\ result.exhibits[i].marker = split_points.exhibits[i].marker)
    /\ [][(pc = "planned" /\ split_points.body_end = Some(0)) => pc' = "split_ends"]_vars

\* A finished split of a document whose first page carries a marker: no
\* body, two exhibits.
C17_Witness ==
    /\ pc = "done"
    /\ split_points.body_end = Some(0)
    /\ result.body_path = None
    /\ Len(result.exhibits) = 2
    /\ files = {ExhibitPath(0), ExhibitPath(1)}

\* C18: on a document whose pages before page f carry no marker, whose page
\* f has a header with EXHIBIT A and SCHEDULE OF LEASES and whose later pages
\* say EXHIBIT A (CONTINUED) (f = 5 of 15 pages in the claim), with page f in
\* the scan window, find_split_points returns body_end = f and exactly one
\* exhibit, a table that starts on page f, and split_document gives that
\* exhibit the last page of the document as its end page.
C18_OneExhibitToTheEnd ==
    (scen # None /\ Get(scen).first < PagesToScan) =>
        /\ pc \in {"planned", "split_ends", "split_loop", "done"} =>
              /\ split_points.body_end = Some(Get(scen).first)
              /\ Len(split_points.exhibits) = 1
              /\ split_points.exhibits[1].start_page = Get(scen).first
              /\ split_points.exhibits[1].exhibit_type = "table"
        /\ pc = "done" =>
              /\ Len(result.exhibits) = 1
              /\ result.exhibits[1].start_page = Get(scen).first
              /\ result.exhibits[1].end_page = Some(total_pages - 1)
              /\ result.exhibits[1].exhibit_type = "table"

\* The document of the claim, split: 15 pages, the exhibit from page 5 to
\* page 14, scanned with the default window.
C18_Witness ==
    /\ pc = "done"
    /\ scen # None
    /\ Get(scen).first = 5
    /\ total_pages = ScenarioPages
    /\ scan_pages = DEFAULT_SCAN_PAGES
    /\ split_points.body_end = Some(5)
    /\ Len(result.exhibits) = 1
    /\ result.exhibits[1].end_page = Some(ScenarioPages - 1)
    /\ result.body_pages = 5

\* The positions in EXHIBIT_MARKERS of the phrases an uppercased header
\* contains.
C22_MarkersIn(text) == {k \in 1..Len(EXHIBIT_MARKERS) : Contains(text, EXHIBIT_MARKERS[k])}

\* The hits recorded for page n.
C22_HitsAt(n) == {h \in 1..Len(split_points.exhibits) : split_points.exhibits[h].start_page = n}

\* C22: during the scan every examined page has at most one hit: none when
\* its header gave no text or contains no marker phrase, and otherwise one
\* whose marker is the contained phrase earliest in EXHIBIT_MARKERS; the hits
\* are in strictly increasing page order.
C22_OneHitPerPage ==
    pc = "scan" =>
        /\ \A i \in 1..Len(scanned) :
              LET n == scanned[i][1]
                  o == scanned[i][2]
                  ks == IF o.kind = "text" THEN C22_MarkersIn(Upper(o.text)) ELSE {}
              IN IF ks = {} THEN C22_HitsAt(n) = {}
                 ELSE /\ Cardinality(C22_HitsAt(n)) = 1
                      /\ \A h \in C22_HitsAt(n) :
                            \A k \in ks :
                                (\A j \in ks : k <= j)
                                    => split_points.exhibits[h].marker = EXHIBIT_MARKERS[k]
        /\ \A h \in 1..Len(split_points.exhibits) :
              \E i \in 1..Len(scanned) : scanned[i][1] = split_points.exhibits[h].start_page
        /\ \A h \in 1..(Len(split_points.exhibits) - 1) :
              split_points.exhibits[h].start_page < split_points.exhibits[h + 1].start_page

\* Two pages with a hit each, the first with two marker phrases in its header.
C22_Witness ==
    /\ pc = "scan"
    /\ Len(split_points.exhibits) = 2
    /\ scanned[1][2].kind = "text"
    /\ Cardinality(C22_MarkersIn(Upper(scanned[1][2].text))) >= 2
    /\ split_points.exhibits[1].start_page = 0

\* C23: the pages find_split_points examines are pages 0, 1, 2, ... in this
\* order, each examined once (a page whose OCR failed is not examined again),
\* and none at or beyond min(scan_pages, total_pages); once the scan has
\* ended without an exception all pages of the window were examined; no
\* exhibit of the plan starts at a page index >= scan_pages.
C23_ScansWindowOnce ==
    /\ \A i \in 1..Len(scanned) : scanned[i][1] = i - 1
    /\ Len(scanned) <= scan_pages
    /\ Len(scanned) <= total_pages
    /\ pc \in {"planned", "split_ends", "split_loop", "done"}
          => Len(scanned) = (IF scan_pages < total_pages THEN scan_pages ELSE total_pages)
    /\ \A h \in 1..Len(split_points.exhibits) :
          /\ split_points.exhibits[h].start_page < scan_pages
          /\ split_points.exhibits[h].start_page >= 0

\* A plan for a document longer than the scan window, with a page whose OCR
\* failed and an exhibit on the last page of the window.
C23_Witness ==
    /\ pc = "planned"
    /\ scan_pages < total_pages
    /\ Len(scanned) = scan_pages
    /\ scanned[1][2].kind = "ocr_error"
    /\ Len(split_points.exhibits) = 1
    /\ split_points.exhibits[1].start_page = scan_pages - 1

\* C28: whenever find_split_points or split_document has returned or raised,
\* every handle it opened on the source document has been closed.
C28_HandleClosedOnEveryExit ==
    pc \in {"planned", "done", "raised"} => open_handles = 0

\* The copies made of the page p of the source: <<k, j>> when the j-th page
\* inserted into the k-th saved sub-document is p.
C29_CopiesOf(p) ==
    {c \in UNION {{<<k, j>> : j \in DOMAIN written[k].pages} : k \in DOMAIN written} :
        written[c[1]].pages[c[2]] = p}

\* The sum of the page_count fields of the result's exhibits.
C29_ExhibitPageCount ==
    Cardinality(UNION {{<<i, n>> : n \in 1..result.exhibits[i].page_count} :
                          i \in DOMAIN result.exhibits})

\* C29: when split_document has returned, the saved sub-documents are the
\* body (when there is one) followed by the exhibits of the result; every
\* page 0..total_pages-1 of the source was copied exactly once and no other
\* page was; the copies are in page order, within a file and from one file to
\* the next; and body_pages plus the exhibits' page counts is total_pages.
C29_OutputsPartitionDocument ==
    pc = "done" =>
        LET body == IF result.body_path # None THEN 1 ELSE 0
        IN /\ Len(written) = body + Len(result.exhibits)
           /\ body = 1 => /\ written[1].path = Get(result.body_path)
                          /\ Len(written[1].pages) = result.body_pages
           /\ body = 0 => result.body_pages = 0
           /\ \A i \in DOMAIN result.exhibits :
                 /\ Some(written[body + i].path) = result.exhibits[i].path
                 /\ Len(written[body + i].pages) = result.exhibits[i].page_count
           /\ \A p \in 0..(total_pages - 1) : Cardinality(C29_CopiesOf(p)) = 1
           /\ \A k \in DOMAIN written : \A j \in DOMAIN written[k].pages :
                 /\ written[k].pages[j] \in 0..(total_pages - 1)
                 /\ j > 1 => written[k].pages[j - 1] < written[k].pages[j]
                 /\ \A k2 \in DOMAIN written : \A j2 \in DOMAIN written[k2].pages :
                       k < k2 => written[k].pages[j] < written[k2].pages[j2]
           /\ result.body_pages + C29_ExhibitPageCount = total_pages

\* A finished split of a three-page document into a body and two exhibits.
C29_Witness ==
    /\ pc = "done"
    /\ total_pages = 3
    /\ result.body_path # None
    /\ Len(result.exhibits) = 2
    /\ Len(written) = 3

(***************************************************************************)
(* Properties of _consolidate_exhibits                                     *)
(***************************************************************************)

\* The exhibit a marker of ConsMarkers names, its continuation suffix aside.
C2_BaseOf(marker) ==
    CASE marker \in {"EXHIBIT A", "Exhibit A (continued)", "EXHIBIT A (CONT.)"} -> "EXHIBIT A"
      [] marker \in {"EXHIBIT B", "EXHIBIT B - CONTINUED"} -> "EXHIBIT B"
      [] marker = "SCHEDULE 1" -> "SCHEDULE 1"

\* The hits that open a block: the first hit, and each hit whose exhibit
\* differs from the one of the hit before.
C2_BlockStarts(hits) ==
    {i \in 1..Len(hits) : i = 1 \/ C2_BaseOf(hits[i].marker) # C2_BaseOf(hits[i - 1].marker)}

\* No exhibit comes back after another one has started.
C2_NonInterleaved(hits) ==
    Cardinality({C2_BaseOf(hits[i].marker) : i \in 1..Len(hits)}) = Cardinality(C2_BlockStarts(hits))

\* C2: hits whose base markers form K non-interleaved blocks consolidate to
\* exactly K regions, in block order, each named by its block's base marker
\* and starting at its block's first hit.
C2_OneRegionPerBlock ==
    (cons_out # None /\ C2_NonInterleaved(cons_in)) =>
        LET out == Get(cons_out)
            starts == C2_BlockStarts(cons_in)
            nth(j) == CHOOSE i \in starts : Cardinality({k \in starts : k <= i}) = j
        IN /\ Len(out) = Cardinality(starts)
           /\ \A j \in 1..Len(out) :
                /\ out[j].start_page = cons_in[nth(j)].start_page
                /\ out[j].marker = C2_BaseOf(cons_in[nth(j)].marker)

\* Three hits in two blocks, the first block continued under a suffix.
C2_Witness ==
    /\ cons_out # None
    /\ Len(cons_in) = 3
    /\ cons_in[1].marker = "EXHIBIT A"
    /\ cons_in[2].marker = "Exhibit A (continued)"
    /\ cons_in[3].marker = "EXHIBIT B - CONTINUED"
    /\ Len(Get(cons_out)) = 2
(***************************************************************************)
(* Properties of the spatial key                                           *)
(***************************************************************************)

\* The parts generate_spatial_key extracts from the description of the state.
KeyText == Strip(Upper(key_desc))
KeyExtracted ==
    LET str == ExtractSectionTownshipRange(KeyText)
    IN [state |-> ExtractState(KeyText), county |-> ExtractCounty(KeyText),
        section |-> str.section, township |-> str.township, range |-> str.range,
        aliquot |-> ExtractAliquot(KeyText)]

AllFiveExtracted ==
    LET e == KeyExtracted
    IN Truthy(e.state) /\ Truthy(e.county) /\ Truthy(e.section) /\ Truthy(e.township)
       /\ Truthy(e.range)

\* C7: generate_spatial_key returns a SpatialKey if and only if state, county,
\* section, township and range were all extracted non-empty, and None
\* otherwise; the key of a returned SpatialKey is
\* STATE-COUNTY-SECTION-TOWNSHIP-RANGE, with -ALIQUOT appended exactly when an
\* aliquot was found.
C7_KeyIffAllFiveExtracted ==
    key_pc = "done" =>
        LET e == KeyExtracted
        IN /\ (key_out # None) <=> AllFiveExtracted
           /\ key_out # None =>
                 LET k == Get(key_out)
                 IN /\ k.state = Get(e.state) /\ k.county = Get(e.county)
                    /\ k.section = Get(e.section) /\ k.township = Get(e.township)
                    /\ k.range = Get(e.range) /\ k.aliquot = e.aliquot
                    /\ k.key = Join("-", <<k.state, k.county, k.section, k.township, k.range>>
                                         \o (IF Truthy(e.aliquot) THEN <<Get(e.aliquot)>> ELSE <<>>))

\* A key with an aliquot was returned for a composed description.
C7_Witness ==
    /\ key_pc = "done"
    /\ key_parts # None
    /\ key_out # None
    /\ Get(key_out).aliquot = Some("NW4")

\* C8: round trip: generate_spatial_key of the description composed from
\* components in any of the five families returns exactly those components,
\* with aliquot None when none was composed.
C8_RoundTrip ==
    (key_pc = "done" /\ key_parts # None) =>
        LET c == Get(key_parts).c
        IN /\ key_out # None
           /\ Get(key_out).state = c.state
           /\ Get(key_out).county = Upper(c.county)
           /\ Get(key_out).section = c.section
           /\ Get(key_out).township = c.township
           /\ Get(key_out).range = c.range
           /\ Get(key_out).aliquot = c.aliquot

\* C24: a description composed of a section, a township and a range with no
\* aliquot notation has no aliquot: _extract_aliquot returns None for it, and
\* so the key returned for it carries none.
C24_NoAliquotWithoutNotation ==
    (key_pc = "done" /\ key_parts # None /\ Get(key_parts).c.aliquot = None) =>
        /\ ExtractAliquot(Upper(key_desc)) = None
        /\ key_out # None => Get(key_out).aliquot = None

\* C25: _extract_aliquot of a text that writes aliquot parts gives the
\* distinct parts written, sorted and joined with hyphens, whatever their
\* order, however often each is written and whether a part is written
\* fractionally, spelled out or both; with no part written it gives None.
C25_SortedDistinctParts ==
    alq_pc = "done" =>
        LET parts == {alq_written[k].part : k \in 1..Len(alq_written)}
        IN Get(alq_out) = (IF parts = {} THEN None ELSE Some(Join("-", SortedSeq(parts))))

\* NW4 written before NE4, and NE4 written spelled out and fractionally.
C25_Witness ==
    /\ alq_pc = "done"
    /\ Len(alq_written) = 3
    /\ alq_written[1].text = "NW/4"
    /\ alq_written[2].text = "NORTHEAST QUARTER"
    /\ alq_written[3].text = "NE/4"
    /\ alq_out = Some(Some("NE4-NW4"))

\* One or more digits followed by exactly one of the letters.
C27_NumberAndLetter(v, letters) ==
    /\ Len(v) >= 2
    /\ \A i \in 1..(Len(v) - 1) : CharAt(v, i) \in Digits
    /\ CharAt(v, Len(v)) \in letters

\* C27: _extract_section_township_range returns (None, None, None), or a
\* section of one or more digits, a township of digits and one letter N or S
\* and a range of digits and one letter E or W; never some of the three
\* without the others.
C27_AllOrNothing ==
    str_pc = "done" =>
        LET r == Get(str_out)
        IN \/ r.section = None /\ r.township = None /\ r.range = None
           \/ /\ r.section # None /\ r.township # None /\ r.range # None
              /\ Len(Get(r.section)) >= 1
              /\ \A i \in 1..Len(Get(r.section)) : CharAt(Get(r.section), i) \in Digits
              /\ C27_NumberAndLetter(Get(r.township), {"N", "S"})
              /\ C27_NumberAndLetter(Get(r.range), {"E", "W"})

\* A township and a range without a section give no result.
C27_Witness ==
    /\ str_pc = "done"
    /\ str_text = "T154N R97W"
    /\ str_out = Some(Str(None, None, None))

\* C12: a full state name is preferred over any two-letter abbreviation, and
\* the written state name wins over a state name it contains; an
\* abbreviation is used only when no full name occurs and the abbreviation
\* is delimited on both sides.
C12_WrittenStateWins ==
    (key_pc = "done" /\ key_parts # None) =>
        LET full == Get(key_parts).full
            tail == Get(key_parts).tail
        IN IF full.name # ""
           THEN key_out # None /\ Some(Get(key_out).state) = full.abbrev
           ELSE key_out # None =>
                   tail.delimited /\ Some(Get(key_out).state) = tail.abbrev

\* What each of the five families (a)..(e) reads from the text by itself,
\* None where the family does not match: (d) matches when both the
\* township-range pattern and the section pattern are found.
C13_FamilyResults ==
    Let(KeyText, LAMBDA text :
        Let(<<Search(StrPattern1, text), Search(StrPattern2, text), Search(StrPattern3, text),
              Search(StrPattern4, text), Search(SectionPattern, text), Search(StrPattern5, text)>>,
            LAMBDA m :
              << IF m[1] = None THEN None
                 ELSE Some([section |-> Group(m[1], 1),
                            township |-> Group(m[1], 2) \o CharAt(Group(m[1], 3), 1),
                            range |-> Group(m[1], 4) \o CharAt(Group(m[1], 5), 1)]),
                 IF m[2] = None THEN None
                 ELSE Some([section |-> Group(m[2], 1), township |-> Group(m[2], 2),
                            range |-> Group(m[2], 3)]),
                 IF m[3] = None THEN None
                 ELSE Some([section |-> Group(m[3], 3), township |-> Group(m[3], 1),
                            range |-> Group(m[3], 2)]),
                 IF m[4] = None \/ m[5] = None THEN None
                 ELSE Some([section |-> Group(m[5], 1), township |-> Group(m[4], 1),
                            range |-> Group(m[4], 2)]),
                 IF m[6] = None THEN None
                 ELSE Some([section |-> Group(m[6], 1), township |-> Group(m[6], 2),
                            range |-> Group(m[6], 3)]) >>))

\* C13: the section, township and range returned are those of the first of
\* the families (a)..(e) that matches the text, wherever in the text the
\* matches of the families lie; when no family matches none is returned
\* (and no key is made).
C13_FirstFamilyWins ==
    key_pc = "done" =>
        Let(C13_FamilyResults, LAMBDA fr :
            LET matched == {k \in 1..5 : fr[k] # None}
            IN IF matched = {} THEN key_out = None
               ELSE /\ key_out # None
                    /\ [section |-> Get(key_out).section, township |-> Get(key_out).township,
                        range |-> Get(key_out).range] = Get(fr[Least(matched)]))

\* The order of the families.
C13_Rank == [verbose |-> 1, compact |-> 2, reversed |-> 3, separate |-> 4, bare |-> 5]

\* A text whose first tract is written in a later family than its second
\* tract: the key is that of the second tract.
C13_Witness ==
    /\ key_pc = "done"
    /\ key_parts # None
    /\ Get(key_parts).first \in KeyFamilies
    /\ Get(key_parts).second \in KeyFamilies
    /\ C13_Rank[Get(key_parts).first] > C13_Rank[Get(key_parts).second]
    /\ key_out # None
    /\ Get(key_out).section = Get(key_parts).cs[2].section
    /\ Get(key_out).township = Get(key_parts).cs[2].township

(***************************************************************************)
(* Properties of the party names                                           *)
(***************************************************************************)

\* C9: normalize_party_name is idempotent on its output: normalizing the
\* normalized name of any name gives that normalized name again.
C9_Idempotent ==
    party_pc = "again" => Get(party_again).normalized_name = Get(party_out).normalized_name

\* C10: the written variants of one legal name (letter case, commas and
\* periods, the written form of the same entity suffix) all have the
\* normalized name of the bare base name, and the suffix loop removes the
\* written suffix whole, leaving what it leaves of the bare base name.
C10_VariantsAgree ==
    party_pc # "input" /\ party_pc # "idle" =>
        LET bare == Replace(party_written.base, ".", "")
        IN /\ Get(party_out).normalized_name = NormalizePartyName(bare).normalized_name
           /\ WithoutSuffixes(Upper(Strip(bare \o " " \o party_written.form)))
                 = WithoutSuffixes(Upper(bare))

(***************************************************************************)
(* Properties of the entity type                                           *)
(***************************************************************************)

\* C30: the normalized_name of a normalized ASCII name has only word
\* characters, blanks and hyphens; no whitespace at either end and no two
\* whitespace characters in a row; no lowercase letter; and no single letter
\* A-Z standing between two word boundaries.
C30_NormalizedNameIsClean ==
    party_out # None =>
        LET out == Get(party_out).normalized_name
        IN /\ \A i \in 1..Len(out) :
                 /\ CharAt(out, i) \in WordChars \cup {" ", "-"}
                 /\ CharAt(out, i) \notin LowerLetters
                 /\ i < Len(out) => ~(CharAt(out, i) \in Whitespace /\ CharAt(out, i + 1) \in Whitespace)
           /\ out # "" => CharAt(out, 1) \notin Whitespace /\ CharAt(out, Len(out)) \notin Whitespace
           /\ Search(Cat(<<Wb, Cls(UpperLetters), Wb>>), out) = None

\* A name with a lowercase letter, a punctuation mark and an initial whose
\* normalized name is not empty.
C30_Witness ==
    /\ party_out # None
    /\ Get(party_out).normalized_name # ""
    /\ \E i \in 1..Len(party_name) : CharAt(party_name, i) \in LowerLetters
    /\ \E i \in 1..Len(party_name) : CharAt(party_name, i) \notin WordChars \cup Whitespace \cup {"-"}
    /\ Search(Cat(<<Wb, Cls(UpperLetters), Wb>>), Upper(party_name)) # None

\* C11: a name carrying the indicator of an entity type is classified as that
\* type; in particular a name written with LLP or L.L.P. has entity type llp
\* and a name written with PLLC or P.L.L.C. has entity type pllc.
C11_IndicatorGivesItsType ==
    party_pc = "normalized" /\ party_written.entity \in {"llp", "pllc"} =>
        Get(party_out).entity_type = Some(party_written.entity)

\* C14: whenever the normalized name that normalize_party_name returns is
\* empty, the entity type it returns is None.
C14_EmptyNameHasNoType ==
    party_pc = "normalized" /\ Get(party_out).normalized_name = "" =>
        Get(party_out).entity_type = None

\* C26: for a name without the indicator of an entity, _detect_entity_type
\* returns individual when the name has only letters, whitespace, commas,
\* periods, apostrophes and hyphens and at most four words once commas are
\* blanks, and None when it has more words or another character.
C26_IndividualIffPlainShortName ==
    det_pc = "done" =>
        Get(det_out) = (IF det_written.plain /\ det_written.words <= 4
                        THEN Some("individual") ELSE None)

(***************************************************************************)
(* Properties of the exhibit type                                          *)
(***************************************************************************)

\* C15: the exhibit type is table when the marker or the text carries a table
\* indicator, else legal_descriptions when either carries a legal
\* description indicator, else image when either carries an image indicator,
\* else narrative; so table wins over legal description and image
\* indicators, and a header with no indicator is narrative.
C15_TypeByPriority ==
    class_out # None =>
        LET kinds == Get(class_in).kinds
        IN Get(class_out) = (IF "table" \in kinds THEN "table"
                             ELSE IF "legal_descriptions" \in kinds THEN "legal_descriptions"
                             ELSE IF "image" \in kinds THEN "image"
                             ELSE "narrative")

\* A header with a table indicator and an image indicator was classified as
\* a table.
C15_Witness ==
    /\ class_out = Some("table")
    /\ {"table", "image"} \subseteq Get(class_in).kinds

(***************************************************************************)
(* Properties of cleanup_temp_files                                        *)
(***************************************************************************)

\* C16: after cleanup_temp_files returns, no file named by the result's body
\* path or by an exhibit's path exists; paths that are unset or already
\* deleted are skipped (no os.remove call is made for them); and a second
\* call removes nothing and does not raise.
C16_CleanupRemovesAll ==
    /\ [](clean_pc \in {"cleaned", "cleaned_again"} =>
            /\ NamedPaths(clean_result) \cap clean_files = {}
            /\ \A i \in 1..Len(clean_removed) : clean_removed[i] \in NamedPaths(clean_result))
    /\ [][/\ clean_pc = "input" =>
               \A i \in 1..Len(clean_removed') : clean_removed'[i] \in clean_files
           /\ clean_pc = "cleaned" =>
               clean_pc' = "cleaned_again" /\ clean_files' = clean_files
               /\ clean_removed' = clean_removed]_vars

\* Two calls were made on a result with a body and two exhibits; the first
\* removed two files, skipped one already deleted, and left a file on disk
\* that the result does not name.
C16_Witness ==
    /\ clean_pc = "cleaned_again"
    /\ clean_result.body_path # None
    /\ Len(clean_result.exhibits) = 2
    /\ \A i \in 1..2 : clean_result.exhibits[i].path # None
    /\ Len(clean_removed) = 2
    /\ clean_files = {OTHER_PATH}

(***************************************************************************)
(* Properties of build_graph_from_extraction                               *)
(***************************************************************************)

\* The calls made on the builder while the loop was at the n-th record.
C19_CallsFor(n) == SelectSeq(gb_calls, LAMBDA c : c.lease = n)

\* The methods called, in order.
C19_Ops(calls) == [k \in 1..Len(calls) |-> calls[k].op]

\* C19: a lease record whose lands text is missing or gives no spatial key
\* is skipped: no tract, COVERS relationship, section or IN_SECTION
\* relationship is created for it; every other record gets all four; and
\* the call returns with the instrument and the parties created.
C19_SkipsRecordsWithoutKey ==
    /\ \A n \in 1..gb_i :
          IF gb_leases[n].kind = "tract"
          THEN C19_Ops(C19_CallsFor(n)) = <<"create_tract", "create_covers_relationship",
                                           "create_section", "create_in_section_relationship">>
          ELSE C19_CallsFor(n) = <<>>
    /\ gb_pc = "returned" =>
          /\ gb_i = Len(gb_leases)
          /\ gb_created.instrument_id = Some(INSTRUMENT_ID)
          /\ Len(gb_created.party_ids)
                = Len(SelectSeq(gb_body.grantors \o gb_body.grantees, LAMBDA name : name # ""))
          /\ Len(gb_created.tract_ids)
                = Cardinality({n \in 1..Len(gb_leases) : gb_leases[n].kind = "tract"})
          /\ \E k \in 1..Len(gb_calls) : gb_calls[k].op = "create_instrument"

\* A call returned that skipped its first record and made the tract of its
\* second.
C19_Witness ==
    /\ gb_pc = "returned"
    /\ Len(gb_leases) = 2
    /\ gb_leases[1].kind = "unparsable"
    /\ gb_leases[2].kind = "tract"
    /\ gb_created.tract_ids = <<TractId("OK-GARFIELD-14-3N-4W")>>
    /\ Len(gb_created.party_ids) = 2

(***************************************************************************)
(* Properties of extract_tables                                            *)
(***************************************************************************)

\* The positions of the calls of a method in the log of AWS calls.
C20_CallsOf(op) == {k \in 1..Len(tx_calls) : tx_calls[k] = op}

\* C20: with cleanup=True extract_tables calls delete_object exactly once
\* after a successful upload on every way out (return, or an exception from
\* starting, polling or parsing), and never before or without the upload;
\* with cleanup=False it never calls it; with the file missing or no bucket
\* configured it raises before it calls upload_file.
C20_DeletesOnceOnEveryExit ==
    /\ Cardinality(C20_CallsOf("delete_object")) <= 1
    /\ \A d \in C20_CallsOf("delete_object") :
          /\ tx_args.cleanup
          /\ \E u \in C20_CallsOf("start_document_analysis") : u < d
    /\ tx_pc \in {"returned", "raised"} =>
          /\ (tx_args.cleanup /\ C20_CallsOf("start_document_analysis") # {})
                => Cardinality(C20_CallsOf("delete_object")) = 1
          /\ (~tx_args.exists \/ (tx_args.bucket = None /\ ~Truthy(tx_args.env)))
                => /\ tx_pc = "raised"
                   /\ tx_exc = Some(IF ~tx_args.exists THEN "FileNotFoundError" ELSE "ValueError")
                   /\ tx_calls = <<>>
                   /\ tx_s3 = {}

\* The job failed and the exception reached the caller after the object was
\* deleted.
C20_Witness ==
    /\ tx_pc = "raised"
    /\ tx_exc = Some("RuntimeError")
    /\ tx_args.cleanup
    /\ tx_calls[Len(tx_calls)] = "delete_object"
    /\ Cardinality(C20_CallsOf("delete_object")) = 1
    /\ tx_s3 = {}

(***************************************************************************)
(* Properties of GraphBuilder.driver and GraphBuilder.close                *)
(***************************************************************************)

\* The call that a step of the builder appended to the log.
C21_Last == drv_log'[Len(drv_log')]

\* What one call of driver or close does to the builder.
C21_Step ==
    Len(drv_log') = Len(drv_log) + 1 =>
        IF C21_Last.op = "driver"
        THEN /\ drv_closed' = drv_closed
             /\ IF drv_driver # None
                THEN /\ C21_Last.raised = "" /\ C21_Last.value = drv_driver
                     /\ drv_driver' = drv_driver
                     /\ drv_created' = drv_created
                ELSE IF drv_uri = ""
                THEN /\ C21_Last.raised = "ValueError"
                     /\ drv_driver' = None
                     /\ drv_created' = drv_created
                ELSE IF C21_Last.raised = ""
                THEN /\ drv_created' = drv_created + 1
                     /\ C21_Last.value = Some(drv_created')
                     /\ drv_driver' = C21_Last.value
                     /\ drv_created' \notin drv_closed
                ELSE /\ drv_driver' = None
                     /\ drv_created' = drv_created
        ELSE /\ drv_created' = drv_created
             /\ IF drv_driver = None
                THEN /\ C21_Last.raised = ""
                     /\ drv_driver' = None
                     /\ drv_closed' = drv_closed
                ELSE /\ drv_closed' = drv_closed \cup {Get(drv_driver)}
                     /\ C21_Last.raised = "" => drv_driver' = None

\* C21: a GraphBuilder has no driver after construction; an access to driver
\* creates one only when none is set, and otherwise returns the one that is
\* set; close() closes the driver that is set and resets it, so that the next
\* access creates a new one; an access with an empty URI raises ValueError
\* and leaves no driver set; close() with no driver set changes nothing.
C21_DriverLifecycle ==
    /\ [](drv_log = <<>> => drv_driver = None /\ drv_created = 0 /\ drv_closed = {})
    /\ [](drv_uri = "" => drv_driver = None /\ drv_created = 0)
    /\ [][C21_Step]_vars

\* A builder whose driver was created, reused, closed, and created anew.
C21_Witness ==
    /\ Len(drv_log) = 4
    /\ drv_log[1] = DrvCall("driver", "", Some(1))
    /\ drv_log[2] = DrvCall("driver", "", Some(1))
    /\ drv_log[3] = DrvCall("close", "", None)
    /\ drv_log[4] = DrvCall("driver", "", Some(2))
    /\ drv_driver = Some(2)
    /\ drv_closed = {1}

====
